---------------------------- MODULE Spec2Model ----------------------------
(***************************************************************************)
(* State-evolution engine of QuantumCircuitsinCompiler: the gate           *)
(* application engine (QuantumGate / QuantumGateOp), the unitarity check,  *)
(* and the Crank-Nicolson solver with its tridiagonal (Thomas) solve.      *)
(*                                                                         *)
(* Numbers.  The program computes in float_t = double.  The model computes *)
(* in exact rationals <<num, den>> (den > 0, lowest terms), i.e. it models *)
(* the arithmetic the floating-point code approximates.  A division by     *)
(* zero gives the single value NonFinite, which every later operation      *)
(* propagates (IEEE Inf and NaN are not told apart).  The constant sqrt2   *)
(* of the gate library is the irrational it stands for: values that        *)
(* involve it are <<n, m, d>> = (n + m sqrt(2)) / d.                       *)
(***************************************************************************)
EXTENDS Integers, Sequences, FiniteSets, TLC

(***************************************************************************)
(* Bounds of the model                                                     *)
(***************************************************************************)
\* widest register operator() is applied to (StateCount = 2^MaxQubits)
MaxQubits == 4
\* how many times one gate operator is applied in a row
MaxApplications == 2
\* largest QBitCount, and longest index list, handed to QuantumGate / toBits
MaxGateQubits == 3
\* largest dimension Dim of a tridiagonal system / of the box's state vector
MaxDim == 3
\* how many times evolve() is called on one box
MaxSteps == 2
\* evolve() is followed while the exact arithmetic stays within 32-bit
\* integers: the entries of m_A are Gaussian integers with parts of at most
\* MaxCoefficient, numerators and denominators of m_psi are at most
\* MaxMagnitude
MaxCoefficient == 5
MaxMagnitude == 100
\* widest register of a QuantumCircuit, and longest gate list given to withGates
MaxCircuitQubits == 3
MaxGates == 3

(***************************************************************************)
(* float_t, modelled exactly                                               *)
(***************************************************************************)
Abs(v) == IF v < 0 THEN -v ELSE v

RECURSIVE Gcd(_, _)
Gcd(a, b) == IF b = 0 THEN a ELSE Gcd(b, a % b)

NonFinite == <<0, 0>>

IsFinite(x) == x[2] # 0

Rat(n, d) ==
    IF d = 0 THEN NonFinite
    ELSE LET g == Gcd(Abs(n), Abs(d))
             s == IF d < 0 THEN -1 ELSE 1
         IN  <<(s * n) \div g, (s * d) \div g>>

R(n) == <<n, 1>>

\* values with an irrational part: <<n, m, d>> is (n + m sqrt(2)) / d with
\* m # 0, d > 0 and no common factor; the parts of any value, rational or not
IsSurd(x)   == Len(x) = 3
RatPart(x)  == x[1]
SurdPart(x) == IF IsSurd(x) THEN x[2] ELSE 0
Den(x)      == x[Len(x)]
Surd(n, m, d) ==
    IF d = 0 THEN NonFinite
    ELSE IF m = 0 THEN Rat(n, d)
    ELSE LET g == Gcd(Gcd(Abs(n), Abs(m)), Abs(d))
             s == IF d < 0 THEN -1 ELSE 1
         IN  <<(s * n) \div g, (s * m) \div g, (s * d) \div g>>

\* sums and products cancel common factors before multiplying
RAdd(x, y) == IF IsSurd(x) \/ IsSurd(y)
              THEN Surd(RatPart(x) * Den(y) + RatPart(y) * Den(x),
                        SurdPart(x) * Den(y) + SurdPart(y) * Den(x),
                        Den(x) * Den(y))
              ELSE IF IsFinite(x) /\ IsFinite(y)
              THEN IF x[2] = 1 /\ y[2] = 1 THEN <<x[1] + y[1], 1>>
                   ELSE IF x[2] = y[2] THEN Rat(x[1] + y[1], x[2])
                   ELSE LET g == Gcd(x[2], y[2])
                        IN  Rat(x[1] * (y[2] \div g) + y[1] * (x[2] \div g),
                                (x[2] \div g) * y[2])
              ELSE NonFinite
RNeg(x)    == IF IsSurd(x) THEN <<-x[1], -x[2], x[3]>>
              ELSE IF IsFinite(x) THEN <<-x[1], x[2]>> ELSE NonFinite
RSub(x, y) == RAdd(x, RNeg(y))
RMul(x, y) == IF IsSurd(x) \/ IsSurd(y)
              THEN Surd(RatPart(x) * RatPart(y) + 2 * SurdPart(x) * SurdPart(y),
                        RatPart(x) * SurdPart(y) + SurdPart(x) * RatPart(y),
                        Den(x) * Den(y))
              ELSE IF IsFinite(x) /\ IsFinite(y)
              THEN IF x[2] = 1 /\ y[2] = 1 THEN <<x[1] * y[1], 1>>
                   ELSE LET g == Gcd(Abs(x[1]), y[2])
                            h == Gcd(Abs(y[1]), x[2])
                        IN  Rat((x[1] \div g) * (y[1] \div h), (x[2] \div h) * (y[2] \div g))
              ELSE NonFinite
\* 1 / ((n + m sqrt(2)) / d) = d (n - m sqrt(2)) / (n^2 - 2 m^2)
RDiv(x, y) == IF IsSurd(y)
              THEN RMul(x, Surd(y[3] * y[1], -(y[3] * y[2]), y[1] * y[1] - 2 * y[2] * y[2]))
              ELSE IF IsFinite(x) /\ IsFinite(y)
              THEN IF y[1] = 0 THEN NonFinite
                   ELSE RMul(x, Rat(y[2], y[1]))
              ELSE NonFinite
\* n + m sqrt(2) > 0
SurdPositive(n, m) ==
    \/ n >= 0 /\ m >= 0 /\ (n > 0 \/ m > 0)
    \/ n > 0 /\ m < 0 /\ n * n > 2 * m * m
    \/ n < 0 /\ m > 0 /\ 2 * m * m > n * n
\* a/b > c/d for b, d > 0, by integer parts and then the reciprocals of the
\* fractional parts, so that no product is formed
RECURSIVE FracGt(_, _, _, _)
FracGt(a, b, c, d) ==
    LET qa == a \div b
        qc == c \div d
        ra == a % b
        rc == c % d
    IN  IF qa # qc THEN qa > qc
        ELSE IF ra = 0 THEN FALSE
        ELSE IF rc = 0 THEN TRUE
        ELSE FracGt(d, rc, b, ra)

\* x > y and x < y on finite values (a comparison with NaN is false)
RGt(x, y)  == IF IsSurd(x) \/ IsSurd(y)
              THEN LET d == RSub(x, y) IN SurdPositive(RatPart(d), SurdPart(d))
              ELSE IsFinite(x) /\ IsFinite(y) /\ FracGt(x[1], x[2], y[1], y[2])
RLt(x, y)  == RGt(y, x)

(***************************************************************************)
(* ConstexprMath::Complex                                                  *)
(***************************************************************************)
Cx(re, im)   == [re |-> re, im |-> im]
zero         == Cx(R(0), R(0))
fromReal(r)  == Cx(r, R(0))
plus_i       == Cx(R(0), R(1))
minus_i      == Cx(R(0), R(-1))
\* the Gaussian integer a + b i
Gi(a, b)     == Cx(R(a), R(b))

CAdd(a, b)   == Cx(RAdd(a.re, b.re), RAdd(a.im, b.im))
CSub(a, b)   == Cx(RSub(a.re, b.re), RSub(a.im, b.im))
CNeg(a)      == Cx(RNeg(a.re), RNeg(a.im))
CMul(a, b)   == Cx(RSub(RMul(a.re, b.re), RMul(a.im, b.im)),
                   RAdd(RMul(a.re, b.im), RMul(a.im, b.re)))
\* the quotient with the imaginary part taken as bc + ad
CDivSameSign(a, b) ==
    LET Denom == RAdd(RMul(b.re, b.re), RMul(b.im, b.im))
    IN  Cx(RDiv(RAdd(RMul(a.re, b.re), RMul(a.im, b.im)), Denom),
           RDiv(RAdd(RMul(a.im, b.re), RMul(a.re, b.im)), Denom))
CDiv(a, b)   ==
    LET Denom == RAdd(RMul(b.re, b.re), RMul(b.im, b.im))
    IN  Cx(RDiv(RAdd(RMul(a.re, b.re), RMul(a.im, b.im)), Denom),
           RDiv(RSub(RMul(a.im, b.re), RMul(a.re, b.im)), Denom))
conj(a)        == Cx(a.re, RNeg(a.im))
normSquared(a) == RAdd(RMul(a.re, a.re), RMul(a.im, a.im))
CFinite(a)     == IsFinite(a.re) /\ IsFinite(a.im)

(***************************************************************************)
(* dimension_t bit operations                                              *)
(***************************************************************************)
pow2(n) == 2 ^ n

RECURSIVE BitAnd(_, _)
BitAnd(x, y) ==
    IF x = 0 \/ y = 0 THEN 0
    ELSE (IF x % 2 = 1 /\ y % 2 = 1 THEN 1 ELSE 0) + 2 * BitAnd(x \div 2, y \div 2)

RECURSIVE BitOr(_, _)
BitOr(x, y) ==
    IF x = 0 THEN y
    ELSE IF y = 0 THEN x
    ELSE (IF x % 2 = 1 \/ y % 2 = 1 THEN 1 ELSE 0) + 2 * BitOr(x \div 2, y \div 2)

isPowerOfTwo(x) == x > 0 /\ BitAnd(x, x - 1) = 0

\* a std::array literal, 0-based
Arr(s) == [i \in 0 .. Len(s) - 1 |-> s[i + 1]]
\* a std::array filled by a loop: every element is computed once
Filled(f) == f @@ <<>>
Size(a) == Cardinality(DOMAIN a)

(***************************************************************************)
(* Gate matrices: the library (common_gates.h) and further candidates      *)
(* handed to QuantumGate<QBitCount, GateMatrix>                            *)
(***************************************************************************)
Rows(M) == Size(M)
Cols(M) == Size(M[0])

identityMatrix(QBitCount) ==
    [i \in 0 .. pow2(QBitCount) - 1 |->
        [j \in 0 .. pow2(QBitCount) - 1 |-> IF i = j THEN fromReal(R(1)) ELSE zero]]

\* a matrix of Gaussian integers from rows of <<re, im>> pairs
Mat(rows) == Arr([r \in 1 .. Len(rows) |->
                    Arr([c \in 1 .. Len(rows[r]) |-> Gi(rows[r][c][1], rows[r][c][2])])])
\* a matrix of real integers
RealMat(rows) == Arr([r \in 1 .. Len(rows) |->
                    Arr([c \in 1 .. Len(rows[r]) |-> Gi(rows[r][c], 0)])])

sqrt2 == Surd(0, 1, 1)

I    == identityMatrix(1)
H    == Arr(<< Arr(<< fromReal(RDiv(R(1), sqrt2)), fromReal(RDiv(R(1), sqrt2)) >>),
               Arr(<< fromReal(RDiv(R(1), sqrt2)), fromReal(RDiv(R(-1), sqrt2)) >>) >>)
\* X with a sign on one entry: unitary, but its square is -I
XSigned == RealMat(<< <<0, 1>>, <<-1, 0>> >>)
X    == RealMat(<< <<0, 1>>, <<1, 0>> >>)
Y    == Mat(<< << <<0, 0>>, <<0, -1>> >>, << <<0, 1>>, <<0, 0>> >> >>)
Z    == RealMat(<< <<1, 0>>, <<0, -1>> >>)
SWAP == RealMat(<< <<1, 0, 0, 0>>, <<0, 0, 1, 0>>, <<0, 1, 0, 0>>, <<0, 0, 0, 1>> >>)
\* the controlled NOT with the second-listed qubit as control
CXTargetFirst == RealMat(<< <<1, 0, 0, 0>>, <<0, 1, 0, 0>>, <<0, 0, 0, 1>>, <<0, 0, 1, 0>> >>)
CX   == RealMat(<< <<1, 0, 0, 0>>, <<0, 0, 0, 1>>, <<0, 0, 1, 0>>, <<0, 1, 0, 0>> >>)
CCX  == RealMat(<< <<1, 0, 0, 0, 0, 0, 0, 0>>, <<0, 1, 0, 0, 0, 0, 0, 0>>,
                   <<0, 0, 1, 0, 0, 0, 0, 0>>, <<0, 0, 0, 1, 0, 0, 0, 0>>,
                   <<0, 0, 0, 0, 1, 0, 0, 0>>, <<0, 0, 0, 0, 0, 1, 0, 0>>,
                   <<0, 0, 0, 0, 0, 0, 0, 1>>, <<0, 0, 0, 0, 0, 0, 1, 0>> >>)

\* user matrices: a rotation with rational entries (unitary, dense), a 1x1
\* matrix, and matrices QuantumGate must refuse
Rot      == Arr(<< Arr(<< fromReal(Rat(3, 5)), fromReal(Rat(4, 5)) >>),
                   Arr(<< fromReal(Rat(-4, 5)), fromReal(Rat(3, 5)) >>) >>)
PhaseS   == Mat(<< << <<1, 0>>, <<0, 0>> >>, << <<0, 0>>, <<0, 1>> >> >>)
One      == RealMat(<< <<1>> >>)
Shear    == RealMat(<< <<1, 1>>, <<0, 1>> >>)
Scale    == RealMat(<< <<2, 0>>, <<0, 1>> >>)
Id3      == RealMat(<< <<1, 0, 0>>, <<0, 1, 0>>, <<0, 0, 1>> >>)
Wide     == RealMat(<< <<1, 0, 0, 0>>, <<0, 1, 0, 0>> >>)

\* off the unitary matrices by 6.25e-10 and by 1e-6
Nudge    == Arr(<< Arr(<<Gi(1, 0), zero>>), Arr(<<zero, Cx(R(1), Rat(1, 40000))>>) >>)
Tilt     == Arr(<< Arr(<<Gi(1, 0), fromReal(Rat(1, 1000))>>),
                   Arr(<<fromReal(Rat(-1, 1000)), Gi(1, 0)>>) >>)

LibraryGates == {I, H, X, Y, Z, SWAP, CX, CCX}
UserMatrices == {Rot, PhaseS, One, Shear, Scale, Id3, Wide}

(***************************************************************************)
(* quantum_gate_helpers: is_gate_matrix, is_unitary, applyUnitary          *)
(***************************************************************************)
\* only std::array<std::array<cplx_t, N>, N> matches the specialization
is_gate_matrix_v(M) == Rows(M) = Cols(M) /\ isPowerOfTwo(Rows(M))

Epsilon == Rat(1, 1000000000)

abs(v) == IF RLt(v, R(0)) THEN RNeg(v) ELSE v

\* the sum without the conjugation
RECURSIVE UnitarySumNoConj(_, _, _, _, _, _)
UnitarySumNoConj(M, Dim, i, j, k, Sum) ==
    IF k = Dim THEN Sum
    ELSE UnitarySumNoConj(M, Dim, i, j, k + 1, CAdd(Sum, CMul(M[k][i], M[k][j])))

\* Sum over k of M[k][i].conj() * M[k][j], accumulated from k = 0
RECURSIVE UnitarySum(_, _, _, _, _, _)
UnitarySum(M, Dim, i, j, k, Sum) ==
    IF k = Dim THEN Sum
    ELSE UnitarySum(M, Dim, i, j, k + 1, CAdd(Sum, CMul(conj(M[k][i]), M[k][j])))

\* the early returns of the loop: FALSE as soon as an entry of the product
\* is off the identity by more than Epsilon
UnitaryEntryOk(i, j, Sum) ==
    /\ ~(i = j /\ (RGt(abs(RSub(Sum.re, R(1))), Epsilon) \/ RGt(abs(Sum.im), Epsilon)))
    /\ ~(i # j /\ (RGt(abs(Sum.re), Epsilon) \/ RGt(abs(Sum.im), Epsilon)))

is_unitary(M) ==
    LET Dim == Rows(M)
    IN  \A i \in 0 .. Dim - 1 : \A j \in 0 .. Dim - 1 :
            UnitaryEntryOk(i, j, UnitarySum(M, Dim, i, j, 0, zero))

\* the row sum accumulated onto v[i] instead of onto zero
RECURSIVE RowTimesOntoInput(_, _, _, _, _, _)
RowTimesOntoInput(U, v, Dim, i, j, acc) ==
    IF j = Dim THEN acc
    ELSE RowTimesOntoInput(U, v, Dim, i, j + 1,
                           CAdd(IF j = 0 THEN v[i] ELSE acc, CMul(U[i][j], v[j])))

\* Result[i] += U[i][j] * v[j] for j = 0 .. Dim-1, from Result[i] = 0
RECURSIVE RowTimes(_, _, _, _, _, _)
RowTimes(U, v, Dim, i, j, acc) ==
    IF j = Dim THEN acc
    ELSE RowTimes(U, v, Dim, i, j + 1, CAdd(acc, CMul(U[i][j], v[j])))

applyUnitary(U, v, Dim) == Filled([i \in 0 .. Dim - 1 |-> RowTimes(U, v, Dim, i, 0, zero)])

(***************************************************************************)
(* QuantumGateOp<QBitCount>::operator()<StateCount>                        *)
(*                                                                         *)
(* k = QBitCount and dim = pow2(k) as in the source.  The operator returns *)
(* the result vector together with a record of what the loops did: for     *)
(* every processed block its base and the global index each local index    *)
(* was gathered from and scattered to.  An index outside the std::array (a *)
(* target position >= the register width) is undefined behaviour at run    *)
(* time: the read yields an arbitrary amplitude `junk` and the write lands *)
(* outside the vector.                                                     *)
(***************************************************************************)
\* the mask assigned instead of or-ed: only the last target stays in it
RECURSIVE AffectedMaskAssigned(_, _, _, _)
AffectedMaskAssigned(bitPos, k, i, mask) ==
    IF i = k THEN mask
    ELSE AffectedMaskAssigned(bitPos, k, i + 1, pow2(bitPos[i]))

\* affectedMask |= 1 << bitPos[i] for i = 0 .. k-1
RECURSIVE AffectedMask(_, _, _, _)
AffectedMask(bitPos, k, i, mask) ==
    IF i = k THEN mask
    ELSE AffectedMask(bitPos, k, i + 1, BitOr(mask, pow2(bitPos[i])))

\* gather with the target list read back to front
RECURSIVE GatherIdxReversed(_, _, _, _, _)
GatherIdxReversed(globalIdx, localIdx, bitPos, k, q) ==
    IF q = k THEN globalIdx
    ELSE GatherIdxReversed(IF BitAnd(localIdx, pow2(q)) # 0
                           THEN BitOr(globalIdx, pow2(bitPos[k - 1 - q]))
                           ELSE globalIdx,
                           localIdx, bitPos, k, q + 1)

\* gather: globalIdx = base; for q: if (localIdx & (1 << q)) globalIdx |= 1 << bitPos[q]
RECURSIVE GatherIdx(_, _, _, _, _)
GatherIdx(globalIdx, localIdx, bitPos, k, q) ==
    IF q = k THEN globalIdx
    ELSE GatherIdx(IF BitAnd(localIdx, pow2(q)) # 0
                   THEN BitOr(globalIdx, pow2(bitPos[q])) ELSE globalIdx,
                   localIdx, bitPos, k, q + 1)

\* scatter with the target list read back to front
RECURSIVE ScatterIdxReversed(_, _, _, _, _)
ScatterIdxReversed(globalIdx, localIdx, bitPos, k, q) ==
    IF q = k THEN globalIdx
    ELSE ScatterIdxReversed(IF BitAnd(localIdx, pow2(q)) # 0
                            THEN BitOr(globalIdx, pow2(bitPos[k - 1 - q]))
                            ELSE globalIdx,
                            localIdx, bitPos, k, q + 1)

\* scatter: the same loop, written a second time in the source
RECURSIVE ScatterIdx(_, _, _, _, _)
ScatterIdx(globalIdx, localIdx, bitPos, k, q) ==
    IF q = k THEN globalIdx
    ELSE ScatterIdx(IF BitAnd(localIdx, pow2(q)) # 0
                    THEN BitOr(globalIdx, pow2(bitPos[q])) ELSE globalIdx,
                    localIdx, bitPos, k, q + 1)

\* localIn[localIdx] = result[globalIdx], with the indices of the block
Gather(result, StateCount, gather, dim, junk) ==
    Filled([localIdx \in 0 .. dim - 1 |->
               IF gather[localIdx] < StateCount THEN result[gather[localIdx]] ELSE junk])

\* result[globalIdx] = localOut[localIdx], for localIdx = 0 .. dim-1 in order
RECURSIVE Scatter(_, _, _, _, _, _)
Scatter(result, StateCount, localOut, scatter, dim, localIdx) ==
    IF localIdx = dim THEN result
    ELSE Scatter(IF scatter[localIdx] < StateCount
                 THEN [result EXCEPT ![scatter[localIdx]] = localOut[localIdx]]
                 ELSE result,
                 StateCount, localOut, scatter, dim, localIdx + 1)

\* the global indices the two inner loops compute for the block at base
BlockRecord(base, bitPos, k, dim) ==
    [base    |-> base,
     gather  |-> Filled([localIdx \in 0 .. dim - 1 |-> GatherIdx(base, localIdx, bitPos, k, 0)]),
     scatter |-> Filled([localIdx \in 0 .. dim - 1 |-> ScatterIdx(base, localIdx, bitPos, k, 0)])]

\* one block: gather, localOut = gateMatrix * localIn, scatter
Block(gateMatrix, dim, StateCount, junk, blk, result) ==
    Scatter(result, StateCount,
            applyUnitary(gateMatrix, Gather(result, StateCount, blk.gather, dim, junk), dim),
            blk.scatter, dim, 0)

\* the loop without the test of base against affectedMask
RECURSIVE BaseLoopNoSkip(_, _, _, _)
BaseLoopNoSkip(call, base, result, blocks) ==
    IF base \notin DOMAIN result THEN [result |-> result, blocks |-> blocks]
    ELSE LET blk == BlockRecord(base, call.bitPos, call.k, call.dim)
         IN  BaseLoopNoSkip(call, base + 1,
                            Block(call.gateMatrix, call.dim, call.StateCount, call.junk,
                                  blk, result),
                            Append(blocks, blk))

\* for (base = 0; base < StateCount; ++base) { if (base & affectedMask) continue; ... }
\* call holds what the loop does not change; result has the entries 0 .. StateCount-1
RECURSIVE BaseLoop(_, _, _, _)
BaseLoop(call, base, result, blocks) ==
    IF base \notin DOMAIN result THEN [result |-> result, blocks |-> blocks]
    ELSE IF BitAnd(base, call.affectedMask) # 0
         THEN BaseLoop(call, base + 1, result, blocks)
         ELSE LET blk == BlockRecord(base, call.bitPos, call.k, call.dim)
              IN  BaseLoop(call, base + 1,
                           Block(call.gateMatrix, call.dim, call.StateCount, call.junk,
                                 blk, result),
                           Append(blocks, blk))

\* operator()(state): result = state, then the loop over the block bases
GateOpCall(gateMatrix, affectedBits, k, StateCount, state, junk) ==
    BaseLoop([gateMatrix |-> gateMatrix, bitPos |-> affectedBits, k |-> k,
              dim |-> pow2(k), StateCount |-> StateCount,
              affectedMask |-> AffectedMask(affectedBits, k, 0, 0), junk |-> junk],
             0, state, <<>>)

\* some index used by the call lies outside the state vector
OutOfBounds(affectedBits, StateCount) ==
    \E q \in DOMAIN affectedBits : pow2(affectedBits[q]) >= StateCount

(***************************************************************************)
(* tridiagonal_matrix_t, Hamiltonian, PotentialBarrier                     *)
(***************************************************************************)
SuperDiagonal == 0
MainDiagonal  == 1
SubDiagonal   == 2

hBar == R(1)

\* a value-initialised StateVector<Dim> / row of a tridiagonal_matrix_t<Dim>
ZeroVector(Dim) == Filled([i \in 0 .. Dim - 1 |-> zero])

\* PotentialBarrier(start, end, v0) and its operator()(position)
PotentialBarrier(start, end, v0) == [m_Start |-> start, m_End |-> end, m_V0 |-> v0]
ZeroPotential == PotentialBarrier(R(0), R(0), R(0))
PotentialAt(potential, position) ==
    IF ~RLt(position, potential.m_Start) /\ ~RGt(position, potential.m_End)
    THEN potential.m_V0
    ELSE R(0)

\* the subdiagonal couplings left at the zero of the initialisation
HamiltonianNoSub(Dim, m, dx, potential) ==
    LET Alpha == RDiv(RMul(hBar, hBar), RMul(RMul(RMul(R(2), m), dx), dx))
    IN  Filled([diagonal \in 0 .. 2 |->
          Filled([i \in 0 .. Dim - 1 |->
            IF diagonal = SuperDiagonal
            THEN IF i + 1 < Dim THEN fromReal(RNeg(Alpha)) ELSE zero
            ELSE IF diagonal = MainDiagonal
            THEN fromReal(RAdd(RMul(R(2), Alpha), PotentialAt(potential, RMul(R(i), dx))))
            ELSE zero])])

\* the potential sampled one grid step further, at (i + 1) * dx
HamiltonianShifted(Dim, m, dx, potential) ==
    LET Alpha == RDiv(RMul(hBar, hBar), RMul(RMul(RMul(R(2), m), dx), dx))
    IN  Filled([diagonal \in 0 .. 2 |->
          Filled([i \in 0 .. Dim - 1 |->
            IF diagonal = SuperDiagonal
            THEN IF i + 1 < Dim THEN fromReal(RNeg(Alpha)) ELSE zero
            ELSE IF diagonal = MainDiagonal
            THEN fromReal(RAdd(RMul(R(2), Alpha), PotentialAt(potential, RMul(R(i + 1), dx))))
            ELSE IF i > 0 THEN fromReal(RNeg(Alpha)) ELSE zero])])

\* Hamiltonian<Dim>(m, dx, potential): the matrix its constructor fills, from zeros
Hamiltonian(Dim, m, dx, potential) ==
    LET Alpha == RDiv(RMul(hBar, hBar), RMul(RMul(RMul(R(2), m), dx), dx))
    IN  Filled([diagonal \in 0 .. 2 |->
          Filled([i \in 0 .. Dim - 1 |->
            IF diagonal = SuperDiagonal
            THEN IF i + 1 < Dim THEN fromReal(RNeg(Alpha)) ELSE zero
            ELSE IF diagonal = MainDiagonal
            THEN fromReal(RAdd(RMul(R(2), Alpha), PotentialAt(potential, RMul(R(i), dx))))
            ELSE IF i > 0 THEN fromReal(RNeg(Alpha)) ELSE zero])])

(***************************************************************************)
(* Crank-Nicolson solver                                                   *)
(***************************************************************************)
\* Factor = cplx_t(0.0, dt / (2.0 * hBar))
\* the factor without the imaginary unit: -dt / (2 hBar)
FactorReal(dt) == Cx(RNeg(RDiv(dt, RMul(R(2), hBar))), R(0))
Factor(dt) == Cx(R(0), RDiv(dt, RMul(R(2), hBar)))

\* buildCrankNicolsonMatrices: the A it writes into the zero-initialised m_A
CrankNicolsonA(Dim, hamiltonian, dt) ==
    Filled([diagonal \in 0 .. 2 |->
      Filled([i \in 0 .. Dim - 1 |->
        IF diagonal = MainDiagonal
        THEN CAdd(fromReal(R(1)), CMul(Factor(dt), hamiltonian[MainDiagonal][i]))
        ELSE IF diagonal = SubDiagonal
        THEN IF i > 0 THEN CMul(Factor(dt), hamiltonian[SubDiagonal][i]) ELSE zero
        ELSE IF i + 1 < Dim THEN CMul(Factor(dt), hamiltonian[SuperDiagonal][i]) ELSE zero])])

\* B with the off-diagonal entries of A: Factor in the place of -Factor
CrankNicolsonBUnnegated(Dim, hamiltonian, dt) ==
    Filled([diagonal \in 0 .. 2 |->
      Filled([i \in 0 .. Dim - 1 |->
        IF diagonal = MainDiagonal
        THEN CSub(fromReal(R(1)), CMul(Factor(dt), hamiltonian[MainDiagonal][i]))
        ELSE IF diagonal = SubDiagonal
        THEN IF i > 0 THEN CMul(Factor(dt), hamiltonian[SubDiagonal][i]) ELSE zero
        ELSE IF i + 1 < Dim THEN CMul(Factor(dt), hamiltonian[SuperDiagonal][i]) ELSE zero])])

\* buildCrankNicolsonMatrices: the B it writes into the zero-initialised m_B
CrankNicolsonB(Dim, hamiltonian, dt) ==
    Filled([diagonal \in 0 .. 2 |->
      Filled([i \in 0 .. Dim - 1 |->
        IF diagonal = MainDiagonal
        THEN CSub(fromReal(R(1)), CMul(Factor(dt), hamiltonian[MainDiagonal][i]))
        ELSE IF diagonal = SubDiagonal
        THEN IF i > 0 THEN CMul(CNeg(Factor(dt)), hamiltonian[SubDiagonal][i]) ELSE zero
        ELSE IF i + 1 < Dim THEN CMul(CNeg(Factor(dt)), hamiltonian[SuperDiagonal][i]) ELSE zero])])

\* the two off-diagonal contributions taken from the wrong neighbours
multiplyTrigiagonalTransposed(Dim, M, x) ==
    Filled([i \in 0 .. Dim - 1 |->
      LET main == CAdd(zero, CMul(M[MainDiagonal][i], x[i]))
          sub  == IF i > 0 THEN CAdd(main, CMul(M[SuperDiagonal][i - 1], x[i - 1])) ELSE main
      IN  IF i + 1 < Dim THEN CAdd(sub, CMul(M[SubDiagonal][i + 1], x[i + 1])) ELSE sub])

\* multiplyTrigiagonal: Result[i] += main, then sub (i > 0), then super (i + 1 < Dim)
multiplyTrigiagonal(Dim, M, x) ==
    Filled([i \in 0 .. Dim - 1 |->
      LET main == CAdd(zero, CMul(M[MainDiagonal][i], x[i]))
          sub  == IF i > 0 THEN CAdd(main, CMul(M[SubDiagonal][i], x[i - 1])) ELSE main
      IN  IF i + 1 < Dim THEN CAdd(sub, CMul(M[SuperDiagonal][i], x[i + 1])) ELSE sub])

\* solveTridiagonal, forward elimination: for (i = 1; i < Dim; ++i) on the
\* by-value copies s.M and s.psi
RECURSIVE ForwardElimination(_, _, _)
ForwardElimination(Dim, i, s) ==
    IF i \notin DOMAIN s.psi THEN s
    ELSE LET w == CDiv(s.M[SubDiagonal][i], s.M[MainDiagonal][i - 1])
         IN  ForwardElimination(Dim, i + 1,
               [M   |-> [s.M EXCEPT ![MainDiagonal][i] =
                            CSub(@, CMul(w, s.M[SuperDiagonal][i - 1]))],
                psi |-> [s.psi EXCEPT ![i] = CSub(@, CMul(w, s.psi[i - 1]))]])

\* solveTridiagonal, back substitution: for (i = Dim - 1; i-- > 0;)
\*   Result[i] = (psi[i] - M[SubDiagonal][i] * Result[i + 1]) / M[MainDiagonal][i]
RECURSIVE BackSubstitution(_, _, _, _)
BackSubstitution(M, psi, i, Result) ==
    IF i - 1 \notin DOMAIN Result THEN Result
    ELSE BackSubstitution(M, psi, i - 1,
           [Result EXCEPT ![i - 1] =
               CDiv(CSub(psi[i - 1], CMul(M[SubDiagonal][i - 1], Result[i])),
                    M[MainDiagonal][i - 1])])

solveTridiagonal(Dim, M, psi) ==
    LET s == ForwardElimination(Dim, 1, [M |-> M, psi |-> psi])
    IN  BackSubstitution(s.M, s.psi, Dim - 1,
          [ZeroVector(Dim) EXCEPT ![Dim - 1] =
              CDiv(s.psi[Dim - 1], s.M[MainDiagonal][Dim - 1])])

\* CrankNicolsonSolver::operator(): rhs = B psi, then solve A psi' = rhs
CrankNicolsonStep(Dim, A, B, psi) == solveTridiagonal(Dim, A, multiplyTrigiagonal(Dim, B, psi))

\* solveTridiagonal with its matrix taken by reference: the caller's matrix is
\* the one the forward elimination updated
CallerMatrixByReference(Dim, M, psi) ==
    ForwardElimination(Dim, 1, [M |-> M, psi |-> psi]).M

\* the caller's matrix after solveTridiagonal(M, psi): M is taken by value, the
\* elimination updates the copy
CallerMatrix(Dim, M, psi) == M

\* The entries <<diagonal, index>> of the tridiagonal argument that the
\* statements of an operation read.
\* buildCrankNicolsonMatrices reads H: main for every i, sub if i > 0, super if i + 1 < Dim
BuildReads(Dim) ==
    UNION {{<<MainDiagonal, i>>}
             \cup (IF i > 0 THEN {<<SubDiagonal, i>>} ELSE {})
             \cup (IF i + 1 < Dim THEN {<<SuperDiagonal, i>>} ELSE {}) : i \in 0 .. Dim - 1}

\* the upper contribution without its guard
MultiplyReadsUnguarded(Dim) ==
    UNION {{<<MainDiagonal, i>>}
             \cup (IF i > 0 THEN {<<SubDiagonal, i>>} ELSE {})
             \cup {<<SuperDiagonal, i>>} : i \in 0 .. Dim - 1}

\* multiplyTrigiagonal reads M: main for every i, sub if i > 0, super if i + 1 < Dim
MultiplyReads(Dim) ==
    UNION {{<<MainDiagonal, i>>}
             \cup (IF i > 0 THEN {<<SubDiagonal, i>>} ELSE {})
             \cup (IF i + 1 < Dim THEN {<<SuperDiagonal, i>>} ELSE {}) : i \in 0 .. Dim - 1}

\* solveTridiagonal reads M: for i = 1 .. Dim-1 sub[i], main[i-1], main[i] and
\* super[i-1]; then main[Dim-1]; then for i = Dim-2 .. 0 sub[i] and main[i]
SolveReads(Dim) ==
    UNION {{<<SubDiagonal, i>>, <<MainDiagonal, i - 1>>, <<MainDiagonal, i>>,
            <<SuperDiagonal, i - 1>>} : i \in 1 .. Dim - 1}
        \cup {<<MainDiagonal, Dim - 1>>}
        \cup UNION {{<<SubDiagonal, i>>, <<MainDiagonal, i>>} : i \in 0 .. Dim - 2}

\* the reads of one operation, tagged with its name
ReadsBy(operation, entries) == {<<operation, e[1], e[2]>> : e \in entries}

(***************************************************************************)
(* The program state                                                       *)
(***************************************************************************)
VARIABLES
    pc,            \* "start", "gate", "op", "applied", "rejected", "undefined", "checked"
    gate,          \* QuantumGate<QBitCount, GateMatrix> as written in the program
    qbits,         \* the index list handed to toBits
    op,            \* the QuantumGateOp toBits returned, if any
    n,             \* register width of the state operator() is called with
    input,         \* argument of the latest operator() call
    result,        \* vector returned by the latest operator() call
    blocks,        \* what the latest call's loops did (see GateOpCall)
    first,         \* argument of the first operator() call
    applications,  \* operator() calls made with this gate operator
    candidate,     \* matrix handed to is_unitary on its own
    verdict,       \* value is_unitary returned for candidate
    m_config,      \* OneDimensionalParticleBox: its configuration
    m_hamiltonian, \* Hamiltonian::m_hamiltonianMatrix of the box
    m_A,           \* CrankNicolsonSolver::m_A
    m_B,           \* CrankNicolsonSolver::m_B
    m_psi,         \* OneDimensionalParticleBox::m_psi
    initialPsi,    \* the state vector the box was constructed with
    previousPsi,   \* m_psi before the latest evolve()
    steps,         \* evolve() calls made
    returned,      \* the vector the latest evolve() returned
    hamiltonianArgs, \* arguments the box's Hamiltonian was constructed with
    reads,         \* <<operation, diagonal, index>>: entries of their tridiagonal
                   \* argument the operations run so far have read
    system,        \* arguments of a direct solveTridiagonal call
    solution,      \* what that call returned
    circuit,       \* QuantumCircuitExecutor<QBitCount, Gates...>: QBitCount and the gates
    m_stateVector, \* QuantumCircuitExecutor::m_stateVector
    rest,          \* the pack the running executeCircuit call was given
    log,           \* the gate operators invoked so far, in order of invocation
    call,          \* a library function called on its own: its name and arguments
    value          \* what that call returned or left in its object

gateVars == <<pc, gate, qbits, op, n, input, result, blocks, first, applications,
              candidate, verdict>>
solverVars == <<m_config, m_hamiltonian, m_A, m_B, m_psi, initialPsi, previousPsi, steps,
                hamiltonianArgs, reads, system, solution, returned>>
circuitVars == <<circuit, m_stateVector, rest, log>>
callVars == <<call, value>>
vars == <<gateVars, solverVars, circuitVars, callVars>>

NoGate   == [declared |-> FALSE]
NoOp     == [bound |-> FALSE]
NoVector == Arr(<<>>)
NoConfig == [N |-> 0]
NoSystem == [Dim |-> 0]
NoArgs   == [Dim |-> 0]
NoCall   == [fn |-> "none"]
NoCircuit == [QBitCount |-> 0, gates |-> <<>>]

\* no box constructed, no system solved
SolverIdle ==
    /\ m_config = NoConfig
    /\ m_hamiltonian = NoVector
    /\ m_A = NoVector
    /\ m_B = NoVector
    /\ m_psi = NoVector
    /\ initialPsi = NoVector
    /\ previousPsi = NoVector
    /\ steps = 0
    /\ returned = NoVector
    /\ hamiltonianArgs = NoArgs
    /\ reads = {}
    /\ system = NoSystem
    /\ solution = NoVector

\* no library function called on its own
CallIdle ==
    /\ call = NoCall
    /\ value = NoVector

\* no circuit built
CircuitIdle ==
    /\ circuit = NoCircuit
    /\ m_stateVector = NoVector
    /\ rest = <<>>
    /\ log = <<>>

\* input states: |0..0>, a vector of pairwise different Gaussian integers and a
\* normalised two-term superposition
BasisZero(w) == [i \in 0 .. pow2(w) - 1 |-> IF i = 0 THEN fromReal(R(1)) ELSE zero]
Ramp(w)      == [i \in 0 .. pow2(w) - 1 |-> Gi(i + 1, 2 * i - 3)]
TwoTerm(w)   == [i \in 0 .. pow2(w) - 1 |->
                    IF i = pow2(w) - 1 THEN Cx(R(0), Rat(4, 5))
                    ELSE IF i = 0 THEN fromReal(Rat(3, 5)) ELSE zero]
InputStates(w) == {BasisZero(w), Ramp(w), TwoTerm(w)}

\* what an out-of-bounds read may yield
JunkValues == {zero, Gi(1, 1)}

IndexLists == UNION {[1 .. len -> 0 .. MaxQubits - 1] : len \in 0 .. MaxGateQubits}

Init ==
    /\ pc = "start"
    /\ gate = NoGate
    /\ qbits = <<>>
    /\ op = NoOp
    /\ n = 0
    /\ input = NoVector
    /\ result = NoVector
    /\ blocks = <<>>
    /\ first = NoVector
    /\ applications = 0
    /\ candidate = One
    /\ verdict = FALSE
    /\ SolverIdle
    /\ CircuitIdle
    /\ CallIdle

\* QuantumGate<QBitCount, GateMatrix>: the requires-clause
\* is_gate_matrix_v<...> && is_unitary<GateMatrix>() decides whether the type exists
GateConstraint(GateMatrix) == is_gate_matrix_v(GateMatrix) /\ is_unitary(GateMatrix)

Instantiate(QBitCount, GateMatrix) ==
    /\ pc = "start"
    /\ gate' = [declared |-> TRUE, QBitCount |-> QBitCount, GateMatrix |-> GateMatrix]
    /\ pc' = IF GateConstraint(GateMatrix) THEN "gate" ELSE "rejected"
    /\ UNCHANGED <<qbits, op, n, input, result, blocks, first, applications, candidate, verdict, solverVars, circuitVars>>
    /\ UNCHANGED callVars

\* toBits without the static_assert on the number of indices
toBitsNoCountAssert(QBitCount, GateMatrix, list) ==
    /\ Rows(GateMatrix) = pow2(QBitCount)
    /\ Cols(GateMatrix) = pow2(QBitCount)

\* toBits(qbits...): static_assert(sizeof...(qbits) == QBitCount), and GateMatrix
\* must be the matrix_t<pow2(QBitCount), pow2(QBitCount)> the constructor takes
toBitsCompiles(QBitCount, GateMatrix, list) ==
    /\ Len(list) = QBitCount
    /\ Rows(GateMatrix) = pow2(QBitCount)
    /\ Cols(GateMatrix) = pow2(QBitCount)

toBits(list) ==
    /\ pc = "gate"
    /\ qbits' = list
    /\ IF toBitsCompiles(gate.QBitCount, gate.GateMatrix, list)
       THEN /\ op' = [bound |-> TRUE, QBitCount |-> gate.QBitCount,
                       gateMatrix |-> gate.GateMatrix, affectedBits |-> Arr(list)]
            /\ pc' = "op"
       ELSE /\ op' = NoOp
            /\ pc' = "rejected"
    /\ UNCHANGED <<gate, n, input, result, blocks, first, applications, candidate, verdict, solverVars, circuitVars>>
    /\ UNCHANGED callVars

\* op(state) for a state of 2^w amplitudes.  With an index outside the vector
\* the call is refused when it is constant-evaluated and undefined otherwise.
Call(state, w) ==
    /\ n' = w
    /\ input' = state
    /\ applications' = applications + 1
    /\ IF OutOfBounds(op.affectedBits, pow2(w))
       THEN \/ /\ pc' = "rejected"
               /\ result' = NoVector
               /\ blocks' = <<>>
            \/ \E junk \in JunkValues :
                 LET r == GateOpCall(op.gateMatrix, op.affectedBits, op.QBitCount,
                                     pow2(w), state, junk)
                 IN  /\ pc' = "undefined"
                     /\ result' = r.result
                     /\ blocks' = r.blocks
       ELSE LET r == GateOpCall(op.gateMatrix, op.affectedBits, op.QBitCount,
                                pow2(w), state, zero)
            IN  /\ pc' = "applied"
                /\ result' = r.result
                /\ blocks' = r.blocks

Apply(w, state) ==
    /\ pc = "op"
    /\ first' = state
    /\ Call(state, w)
    /\ UNCHANGED <<gate, qbits, op, candidate, verdict, solverVars, circuitVars>>
    /\ UNCHANGED callVars

\* the gate operator is reusable: apply it again to the vector it returned
Reapply ==
    /\ pc = "applied"
    /\ applications < MaxApplications
    /\ Call(result, n)
    /\ UNCHANGED <<gate, qbits, op, first, candidate, verdict, solverVars, circuitVars>>
    /\ UNCHANGED callVars

Next ==
    \/ \E QBitCount \in 0 .. MaxGateQubits, GateMatrix \in LibraryGates \cup UserMatrices :
          Instantiate(QBitCount, GateMatrix)
    \/ \E list \in IndexLists : toBits(list)
    \/ \E w \in 0 .. MaxQubits : \E state \in InputStates(w) : Apply(w, state)
    \/ Reapply

Spec == Init /\ [][Next]_vars

(***************************************************************************)
(* is_unitary on its own: every 2x2 matrix over {0, 1, -1, i, -i}, the     *)
(* square matrices above and two matrices close to a unitary one           *)
(***************************************************************************)
UnitEntries == {zero, Gi(1, 0), Gi(-1, 0), Gi(0, 1), Gi(0, -1)}
Small2x2 == {Arr(<< Arr(<<a, b>>), Arr(<<c, d>>) >>) : a \in UnitEntries, b \in UnitEntries,
                                                      c \in UnitEntries, d \in UnitEntries}
SquareCandidates ==
    Small2x2 \cup {M \in LibraryGates \cup UserMatrices : Rows(M) = Cols(M)} \cup {Nudge, Tilt}

InitUnitary ==
    /\ pc = "start"
    /\ gate = NoGate
    /\ qbits = <<>>
    /\ op = NoOp
    /\ n = 0
    /\ input = NoVector
    /\ result = NoVector
    /\ blocks = <<>>
    /\ first = NoVector
    /\ applications = 0
    /\ candidate \in SquareCandidates
    /\ verdict = FALSE
    /\ SolverIdle
    /\ CircuitIdle
    /\ CallIdle

CheckUnitary ==
    /\ pc = "start"
    /\ verdict' = is_unitary(candidate)
    /\ pc' = "checked"
    /\ UNCHANGED <<gate, qbits, op, n, input, result, blocks, first, applications, candidate, solverVars, circuitVars>>
    /\ UNCHANGED callVars

NextUnitary == CheckUnitary

SpecUnitary == InitUnitary /\ [][NextUnitary]_vars

(***************************************************************************)
(* solveTridiagonal on its own                                             *)
(***************************************************************************)
\* right-hand sides and initial state vectors of Dim entries
PointMass(Dim) == Filled([i \in 0 .. Dim - 1 |-> IF i = 0 THEN fromReal(R(1)) ELSE zero])
Wave(Dim)      == Filled([i \in 0 .. Dim - 1 |-> Gi(i + 1, 2 * i - 3)])
Vectors(Dim)   == {PointMass(Dim), Wave(Dim)}

\* sub-diagonal a, main diagonal b, b + slope, b + 2 slope, .., super-diagonal c;
\* filler occupies the two entries of the storage that are not matrix entries
TriMatrix(Dim, a, b, slope, c, filler) ==
    Filled([diagonal \in 0 .. 2 |->
      Filled([i \in 0 .. Dim - 1 |->
        IF diagonal = SubDiagonal THEN (IF i > 0 THEN a ELSE filler)
        ELSE IF diagonal = MainDiagonal THEN CAdd(b, Gi(i * slope, 0))
        ELSE IF i + 1 < Dim THEN c ELSE filler])])

TriMatrices(Dim) ==
    {TriMatrix(Dim, a, b, slope, c, filler) :
        a \in {Gi(1, 0), Gi(0, 1)}, b \in {Gi(1, 0), Gi(2, 0), Gi(1, 1)}, slope \in {0, 1},
        c \in {Gi(1, 0), Gi(2, 0)}, filler \in {zero, Gi(3, 0)}}

\* x = solveTridiagonal(M, d)
Solve(Dim, M, d) ==
    /\ pc = "start"
    /\ system' = [Dim |-> Dim, M |-> M, d |-> d]
    /\ solution' = solveTridiagonal(Dim, M, d)
    /\ pc' = "solved"
    /\ UNCHANGED <<gate, qbits, op, n, input, result, blocks, first, applications,
                   candidate, verdict>>
    /\ reads' = ReadsBy("solveTridiagonal", SolveReads(Dim))
    /\ UNCHANGED <<m_config, m_hamiltonian, m_A, m_B, m_psi, initialPsi, previousPsi, steps,
                   hamiltonianArgs, returned>>
    /\ UNCHANGED circuitVars
    /\ UNCHANGED callVars

\* y = multiplyTrigiagonal(M, x)
Multiply(Dim, M, x) ==
    /\ pc = "start"
    /\ system' = [Dim |-> Dim, M |-> M, d |-> x]
    /\ solution' = multiplyTrigiagonal(Dim, M, x)
    /\ pc' = "multiplied"
    /\ reads' = ReadsBy("multiplyTrigiagonal", MultiplyReads(Dim))
    /\ UNCHANGED <<gate, qbits, op, n, input, result, blocks, first, applications,
                   candidate, verdict>>
    /\ UNCHANGED <<m_config, m_hamiltonian, m_A, m_B, m_psi, initialPsi, previousPsi, steps,
                   hamiltonianArgs, returned>>
    /\ UNCHANGED circuitVars
    /\ UNCHANGED callVars

NextMultiply ==
    \E Dim \in 1 .. MaxDim : \E M \in TriMatrices(Dim), x \in Vectors(Dim) : Multiply(Dim, M, x)

SpecMultiply == Init /\ [][NextMultiply]_vars

NextThomas ==
    \E Dim \in 1 .. MaxDim : \E M \in TriMatrices(Dim), d \in Vectors(Dim) : Solve(Dim, M, d)

SpecThomas == Init /\ [][NextThomas]_vars

(***************************************************************************)
(* OneDimensionalParticleBox                                               *)
(***************************************************************************)
\* box lengths that give the grid spacings dx = 1 and dx = 2
BoxLengths(N) == {R(N - 1), R(2 * (N - 1))}
TimeSteps  == {R(1), R(2), R(4)}
Masses     == {Rat(1, 8), Rat(1, 2), R(1)}
Potentials == {ZeroPotential, PotentialBarrier(R(1), R(2), R(3))}

\* OneDimensionalParticleBoxConfig<SpatialDiscretizationStep>(boxLength, timeStep)
OneDimensionalParticleBoxConfig(SpatialDiscretizationStep, boxLength, timeStep) ==
    [N  |-> SpatialDiscretizationStep,
     M  |-> SpatialDiscretizationStep - 2,
     L  |-> boxLength,
     dt |-> timeStep,
     dx |-> RDiv(boxLength, R(SpatialDiscretizationStep - 1))]

\* a box from a configuration, the Hamiltonian built for its grid and a state
\* vector; the solver member precomputes A and B from hamiltonian and config.dt
ConstructBox(config, m, potential, stateVector) ==
    /\ pc = "start"
    /\ m_config' = config
    /\ m_hamiltonian' = Hamiltonian(config.N - 2, m, config.dx, potential)
    /\ m_A' = CrankNicolsonA(config.N - 2, m_hamiltonian', config.dt)
    /\ m_B' = CrankNicolsonB(config.N - 2, m_hamiltonian', config.dt)
    /\ m_psi' = stateVector
    /\ initialPsi' = stateVector
    /\ previousPsi' = stateVector
    /\ steps' = 0
    /\ returned' = NoVector
    /\ hamiltonianArgs' = [Dim |-> config.N - 2, m |-> m, dx |-> config.dx,
                           potential |-> potential]
    /\ reads' = ReadsBy("buildCrankNicolsonMatrices", BuildReads(config.N - 2))
    /\ pc' = "box"
    /\ UNCHANGED <<gate, qbits, op, n, input, result, blocks, first, applications,
                   candidate, verdict, system, solution, circuitVars>>
    /\ UNCHANGED callVars

\* the sizes evolve() is followed for
SmallMatrix(A) ==
    \A diagonal \in DOMAIN A : \A i \in DOMAIN A[diagonal] :
        \A part \in {A[diagonal][i].re, A[diagonal][i].im} :
            part[2] = 1 /\ Abs(part[1]) <= MaxCoefficient
SmallVector(v) ==
    \A i \in DOMAIN v : \A part \in {v[i].re, v[i].im} :
        Abs(part[1]) <= MaxMagnitude /\ part[2] <= MaxMagnitude

\* evolve() that steps from the vector the box was constructed with
evolveFromInitial ==
    /\ pc = "box"
    /\ steps < MaxSteps
    /\ SmallMatrix(m_A)
    /\ SmallVector(m_psi)
    /\ previousPsi' = m_psi
    /\ m_psi' = CrankNicolsonStep(m_config.N - 2, m_A, m_B, initialPsi)
    /\ returned' = m_psi'
    /\ m_A' = CallerMatrix(m_config.N - 2, m_A, multiplyTrigiagonal(m_config.N - 2, m_B, m_psi))
    /\ reads' = reads \cup ReadsBy("multiplyTrigiagonal", MultiplyReads(m_config.N - 2))
                      \cup ReadsBy("solveTridiagonal", SolveReads(m_config.N - 2))
    /\ steps' = steps + 1
    /\ UNCHANGED <<pc, gate, qbits, op, n, input, result, blocks, first, applications,
                   candidate, verdict, m_config, m_hamiltonian, m_B, initialPsi,
                   hamiltonianArgs, system, solution, circuitVars>>
    /\ UNCHANGED callVars

\* evolve(): m_psi = m_timeEvolutionSolver(m_psi); return m_psi
evolve ==
    /\ pc = "box"
    /\ steps < MaxSteps
    /\ SmallMatrix(m_A)
    /\ SmallVector(m_psi)
    /\ previousPsi' = m_psi
    /\ m_psi' = CrankNicolsonStep(m_config.N - 2, m_A, m_B, m_psi)
    /\ returned' = m_psi'
    /\ m_A' = CallerMatrix(m_config.N - 2, m_A, multiplyTrigiagonal(m_config.N - 2, m_B, m_psi))
    /\ reads' = reads \cup ReadsBy("multiplyTrigiagonal", MultiplyReads(m_config.N - 2))
                      \cup ReadsBy("solveTridiagonal", SolveReads(m_config.N - 2))
    /\ steps' = steps + 1
    /\ UNCHANGED <<pc, gate, qbits, op, n, input, result, blocks, first, applications,
                   candidate, verdict, m_config, m_hamiltonian, m_B, initialPsi,
                   hamiltonianArgs, system, solution, circuitVars>>
    /\ UNCHANGED callVars

NextBox ==
    \/ \E N \in 3 .. MaxDim + 2, timeStep \in TimeSteps,
          m \in Masses, potential \in Potentials :
          \E boxLength \in BoxLengths(N), stateVector \in Vectors(N - 2) :
             ConstructBox(OneDimensionalParticleBoxConfig(N, boxLength, timeStep),
                          m, potential, stateVector)
    \/ evolve

SpecBox == Init /\ [][NextBox]_vars

(***************************************************************************)
(* QuantumCircuit<QBitCount>().withGates(gates...)                         *)
(***************************************************************************)
\* QBitState with the last basis state in the place of the requested one
QBitStateLast(QBitCount, initialValue) ==
    [ZeroVector(pow2(QBitCount)) EXCEPT ![pow2(QBitCount) - 1 - initialValue] = fromReal(R(1))]

\* QBitState<QBitCount>()(initialValue): StateVector<Dim> psi{}; psi[initialValue] = 1
QBitState(QBitCount, initialValue) ==
    [ZeroVector(pow2(QBitCount)) EXCEPT ![initialValue] = fromReal(R(1))]

\* QuantumGate<QBitCount, GateMatrix>().toBits(list...), for a gate and a list
\* that compile
GateOp(QBitCount, GateMatrix, list) ==
    [bound |-> TRUE, QBitCount |-> QBitCount, gateMatrix |-> GateMatrix,
     affectedBits |-> Arr(list)]

\* gate operators on a register of w qubits, and the packs made of them
GateOps(w) ==
    (IF w >= 1 THEN {GateOp(1, H, <<0>>), GateOp(1, X, <<w - 1>>)} ELSE {})
        \cup {GateOp(2, CX, <<q, q + 1>>) : q \in 0 .. w - 2}
        \cup (IF w >= 3 THEN {GateOp(3, CCX, <<0, 1, 2>>)} ELSE {})
GateLists(w) == UNION {[1 .. len -> GateOps(w)] : len \in 0 .. MaxGates}

\* the gate called with the initial basis state instead of the current state
InvokeOnInitial(g, state) ==
    GateOpCall(g.gateMatrix, g.affectedBits, g.QBitCount, Size(state),
               [i \in DOMAIN state |-> IF i = 0 THEN fromReal(R(1)) ELSE zero], zero).result

\* gate(m_stateVector)
Invoke(g, state) ==
    GateOpCall(g.gateMatrix, g.affectedBits, g.QBitCount, Size(state), state, zero).result

\* the constructor up to its call of executeCircuit(gates...)
withGates(QBitCount, gates) ==
    /\ pc = "start"
    /\ circuit' = [QBitCount |-> QBitCount, gates |-> gates]
    /\ m_stateVector' = QBitState(QBitCount, 0)
    /\ rest' = gates
    /\ log' = <<>>
    /\ pc' = "circuit"
    /\ UNCHANGED <<gate, qbits, op, n, input, result, blocks, first, applications,
                   candidate, verdict, solverVars>>
    /\ UNCHANGED callVars

\* executeCircuit(gate, rest...): m_stateVector = gate(m_stateVector), then the
\* call with rest...; executeCircuit() ends the recursion and the constructor
executeCircuit ==
    /\ pc = "circuit"
    /\ IF rest = <<>>
       THEN /\ pc' = "executed"
            /\ UNCHANGED <<m_stateVector, rest, log>>
       ELSE /\ m_stateVector' = Invoke(Head(rest), m_stateVector)
            /\ rest' = Tail(rest)
            /\ log' = Append(log, Head(rest))
            /\ pc' = "circuit"
    /\ UNCHANGED <<gate, qbits, op, n, input, result, blocks, first, applications,
                   candidate, verdict, solverVars, circuit>>
    /\ UNCHANGED callVars

NextCircuit ==
    \/ \E QBitCount \in 0 .. MaxCircuitQubits : \E gates \in GateLists(QBitCount) :
          withGates(QBitCount, gates)
    \/ executeCircuit

SpecCircuit == Init /\ [][NextCircuit]_vars

(***************************************************************************)
(* Two gate operators called one after the other on a state                *)
(***************************************************************************)
\* gate operators of one and two qubits on a register of w qubits
RegisterOps(w) ==
    {GateOp(1, g, <<q>>) : g \in {H, X, Y, Z}, q \in 0 .. w - 1}
        \cup {GateOp(2, g, pq) : g \in {CX, SWAP},
                                  pq \in {l \in [1 .. 2 -> 0 .. w - 1] : l[1] # l[2]}}

\* only the second gate is called
ApplyBothSecondOnly(w, G1, G2, psi) ==
    /\ pc = "start"
    /\ call' = [fn |-> "G2(G1(psi))", w |-> w, G1 |-> G1, G2 |-> G2, psi |-> psi]
    /\ value' = Invoke(G2, psi)
    /\ pc' = "called"
    /\ UNCHANGED <<gate, qbits, op, n, input, result, blocks, first, applications,
                   candidate, verdict, solverVars, circuitVars>>

\* state = G1(state); state = G2(state);
ApplyBoth(w, G1, G2, psi) ==
    /\ pc = "start"
    /\ call' = [fn |-> "G2(G1(psi))", w |-> w, G1 |-> G1, G2 |-> G2, psi |-> psi]
    /\ value' = Invoke(G2, Invoke(G1, psi))
    /\ pc' = "called"
    /\ UNCHANGED <<gate, qbits, op, n, input, result, blocks, first, applications,
                   candidate, verdict, solverVars, circuitVars>>

NextCommute ==
    \E w \in 1 .. MaxCircuitQubits : \E G1 \in RegisterOps(w), G2 \in RegisterOps(w) :
        \E psi \in InputStates(w) : ApplyBoth(w, G1, G2, psi)

SpecCommute == Init /\ [][NextCommute]_vars

(***************************************************************************)
(* StateVector::normalize_with_dx                                          *)
(***************************************************************************)
IsSquare(k) == \E r \in 0 .. k : r * r = k
Root(k)     == CHOOSE r \in 0 .. k : r * r = k

\* the values whose square root is rational or a rational multiple of sqrt(2)
HasRoot(x) ==
    /\ ~IsSurd(x)
    /\ IsFinite(x)
    /\ \/ x[1] <= 0
       \/ IsSquare(x[1]) /\ IsSquare(x[2])
       \/ LET y == RMul(R(2), x) IN IsSquare(y[1]) /\ IsSquare(y[2])

\* ConstexprMath::sqrt: NaN below zero, x at zero, else the limit of the
\* Newton iteration, the square root
sqrt(x) ==
    IF RLt(x, R(0)) THEN NonFinite
    ELSE IF x = R(0) THEN x
    ELSE IF IsSquare(x[1]) /\ IsSquare(x[2]) THEN Rat(Root(x[1]), Root(x[2]))
    ELSE LET y == RMul(R(2), x) IN Surd(0, Root(y[1]), 2 * Root(y[2]))

\* Complex::operator*(FloatType scalar)
CScale(c, scalar) == Cx(RMul(c.re, scalar), RMul(c.im, scalar))

\* Norm2 += c.normSquared() for every c of the vector
RECURSIVE AccumulateNorm2(_, _, _)
AccumulateNorm2(psi, i, Norm2) ==
    IF i \notin DOMAIN psi THEN Norm2
    ELSE AccumulateNorm2(psi, i + 1, RAdd(Norm2, normSquared(psi[i])))

\* the rescale without the guard on Norm2
normalize_with_dxUnguarded(psi, dx) ==
    LET Norm2 == RMul(AccumulateNorm2(psi, 0, R(0)), dx)
        Inv   == RDiv(R(1), sqrt(Norm2))
    IN  Filled([i \in DOMAIN psi |-> CScale(psi[i], Inv)])

\* normalize_with_dx(dx): the vector it leaves in m_StateVector
normalize_with_dx(psi, dx) ==
    LET Norm2 == RMul(AccumulateNorm2(psi, 0, R(0)), dx)
        Inv   == RDiv(R(1), sqrt(Norm2))
    IN  IF RGt(Norm2, R(0))
        THEN Filled([i \in DOMAIN psi |-> CScale(psi[i], Inv)])
        ELSE psi

Amplitudes == {zero, Gi(1, 0), Gi(0, -1), Gi(1, 1), Gi(-2, 0)}
GridVectors(Dim) == [0 .. Dim - 1 -> Amplitudes]
GridSpacings == {R(-1), R(0), Rat(1, 2), R(1), R(2)}

\* psi.normalize_with_dx(dx), for the vectors whose norm has a root in the model
Normalize(psi, dx) ==
    /\ pc = "start"
    /\ HasRoot(RMul(AccumulateNorm2(psi, 0, R(0)), dx))
    /\ call' = [fn |-> "normalize_with_dx", psi |-> psi, dx |-> dx]
    /\ value' = normalize_with_dx(psi, dx)
    /\ pc' = "called"
    /\ UNCHANGED <<gate, qbits, op, n, input, result, blocks, first, applications,
                   candidate, verdict, solverVars, circuitVars>>

NextNormalize ==
    \E Dim \in 1 .. MaxDim : \E psi \in GridVectors(Dim), dx \in GridSpacings :
        Normalize(psi, dx)

SpecNormalize == Init /\ [][NextNormalize]_vars

(***************************************************************************)
(* ConstexprMath::sin_constexpr, cos_constexpr                             *)
(*                                                                         *)
(* An angle is a rational t standing for t * Pi.  The two polynomials are  *)
(* kept as terms: a value is sin * sin_poly(of * Pi) + cos * cos_poly(of * *)
(* Pi) with coefficients in -1 .. 1.                                       *)
(***************************************************************************)
MaxAngle == 4

\* static_cast<int32_t>(x): the fraction is dropped, towards zero
Truncated(x) == IF x[1] < 0 THEN -((-x[1]) \div x[2]) ELSE x[1] \div x[2]

floor_constexpr(x) ==
    LET i == Truncated(x)
    IN  IF RLt(x, R(i)) THEN i - 1 ELSE i

Term(s, c, xr) == [sin |-> s, cos |-> c, of |-> xr]
sin_poly(x)    == Term(1, 0, x)
cos_poly(x)    == Term(0, 1, x)
Minus(term)    == Term(-term.sin, -term.cos, term.of)
\* the 0.0 after the switch
Unreachable    == Term(0, 0, R(0))

\* a % b of two ints: the sign of the dividend
Remainder(a, b) == IF a < 0 THEN -((-a) % b) ELSE a % b

\* the quadrant taken as k % 4
reduce_quadrantRemainder(x) ==
    LET k == floor_constexpr(RDiv(RAdd(x, Rat(1, 4)), Rat(1, 2)))
    IN  [xr |-> RSub(x, RMul(R(k), Rat(1, 2))), kmod4 |-> Remainder(k, 4)]

\* reduce_quadrant(x, xr): the reduced angle it stores and the index it returns
reduce_quadrant(x) ==
    LET k == floor_constexpr(RDiv(RAdd(x, Rat(1, 4)), Rat(1, 2)))
    IN  [xr |-> RSub(x, RMul(R(k), Rat(1, 2))), kmod4 |-> BitAnd(k, 3)]

sin_constexpr(x) ==
    LET reduced == reduce_quadrant(x)
        q  == reduced.kmod4
        xr == reduced.xr
    IN  CASE q = 0 -> sin_poly(xr)
          [] q = 1 -> cos_poly(xr)
          [] q = 2 -> Minus(sin_poly(xr))
          [] q = 3 -> Minus(cos_poly(xr))
          [] OTHER -> Unreachable

cos_constexpr(x) ==
    LET reduced == reduce_quadrant(x)
        q  == reduced.kmod4
        xr == reduced.xr
    IN  CASE q = 0 -> cos_poly(xr)
          [] q = 1 -> Minus(sin_poly(xr))
          [] q = 2 -> Minus(cos_poly(xr))
          [] q = 3 -> sin_poly(xr)
          [] OTHER -> Unreachable

Angles ==
    {Rat(a, 8) : a \in -8 * MaxAngle .. 8 * MaxAngle}
        \cup {Rat(a, 12) : a \in -12 * MaxAngle .. 12 * MaxAngle}

Sine(x) ==
    /\ pc = "start"
    /\ call' = [fn |-> "sin_constexpr", x |-> x]
    /\ value' = sin_constexpr(x)
    /\ pc' = "called"
    /\ UNCHANGED <<gate, qbits, op, n, input, result, blocks, first, applications,
                   candidate, verdict, solverVars, circuitVars>>

Cosine(x) ==
    /\ pc = "start"
    /\ call' = [fn |-> "cos_constexpr", x |-> x]
    /\ value' = cos_constexpr(x)
    /\ pc' = "called"
    /\ UNCHANGED <<gate, qbits, op, n, input, result, blocks, first, applications,
                   candidate, verdict, solverVars, circuitVars>>

NextTrig == \E x \in Angles : Sine(x) \/ Cosine(x)

SpecTrig == Init /\ [][NextTrig]_vars

(***************************************************************************)
(* Complex::operator/ and Complex::conj called on exact values             *)
(***************************************************************************)
MaxPart == 2

\* whole and half values
ExactParts   == {Rat(a, b) : a \in -MaxPart .. MaxPart, b \in 1 .. 2}
ExactValues  == {Cx(re, im) : re \in ExactParts, im \in ExactParts}

\* z / w
Divide(z, w) ==
    /\ pc = "start"
    /\ call' = [fn |-> "operator/", z |-> z, w |-> w]
    /\ value' = CDiv(z, w)
    /\ pc' = "called"
    /\ UNCHANGED <<gate, qbits, op, n, input, result, blocks, first, applications,
                   candidate, verdict, solverVars, circuitVars>>

\* z.conj()
Conjugate(z) ==
    /\ pc = "start"
    /\ call' = [fn |-> "conj", z |-> z]
    /\ value' = conj(z)
    /\ pc' = "called"
    /\ UNCHANGED <<gate, qbits, op, n, input, result, blocks, first, applications,
                   candidate, verdict, solverVars, circuitVars>>

NextComplex ==
    \E z \in ExactValues : \/ \E w \in ExactValues : Divide(z, w)
                           \/ Conjugate(z)

SpecComplex == Init /\ [][NextComplex]_vars

(***************************************************************************)
(* The grid position of index i in the Hamiltonian constructor and in the  *)
(* seed generators, all built from one OneDimensionalParticleBoxConfig     *)
(***************************************************************************)
MaxLength == 6

\* Hamiltonian: float_t Position = i * dx, the argument of potential()
HamiltonianPosition(i, dx) == RMul(R(i), dx)

\* GaussianWavePacket: const double x = (n + 1) * dx
GaussianWavePacketPosition(k, dx) == RMul(R(k + 1), dx)

\* EigenState: const float_t x = (i + 1) * dx
EigenStatePosition(i, dx) == RMul(R(i + 1), dx)

GridLengths == {Rat(a, b) : a \in 1 .. MaxLength, b \in 1 .. MaxLength}

\* GaussianWavePacket<cfg.M>()(.., cfg.dx), EigenState<cfg.M>()(.., cfg.dx, cfg.L)
\* and Hamiltonian<cfg.M>(mass, cfg.dx, potential): the position each of them
\* computes for every index
BuildOnGrid(cfg) ==
    /\ pc = "start"
    /\ call' = [fn |-> "grid", cfg |-> cfg]
    /\ value' = [hamiltonian    |-> [i \in 0 .. cfg.M - 1 |-> HamiltonianPosition(i, cfg.dx)],
                 gaussianPacket |-> [i \in 0 .. cfg.M - 1 |-> GaussianWavePacketPosition(i, cfg.dx)],
                 eigenState     |-> [i \in 0 .. cfg.M - 1 |-> EigenStatePosition(i, cfg.dx)]]
    /\ pc' = "called"
    /\ UNCHANGED <<gate, qbits, op, n, input, result, blocks, first, applications,
                   candidate, verdict, solverVars, circuitVars>>

NextGrid ==
    \E N \in 3 .. MaxDim + 2, boxLength \in GridLengths, timeStep \in TimeSteps :
        BuildOnGrid(OneDimensionalParticleBoxConfig(N, boxLength, timeStep))

SpecGrid == Init /\ [][NextGrid]_vars

(***************************************************************************)
(* Reference definitions the properties are stated with                    *)
(***************************************************************************)
Bit(x, p) == (x \div pow2(p)) % 2

Range(f) == {f[x] : x \in DOMAIN f}

\* targets pairwise distinct and inside a register of w qubits
ValidTargets(T, w) ==
    /\ \A a \in DOMAIN T : T[a] < w
    /\ \A a \in DOMAIN T : \A b \in DOMAIN T : a # b => T[a] # T[b]

\* the local basis index of global index x: local bit b is bit T[b] of x
RECURSIVE LocalOf(_, _, _)
LocalOf(x, T, b) ==
    IF b \notin DOMAIN T THEN 0 ELSE Bit(x, T[b]) * pow2(b) + LocalOf(x, T, b + 1)

\* entry (r, c) of the 2^w x 2^w operator with U on the positions T and the
\* identity on every other position
Kron(U, T, w, r, c) ==
    IF \A p \in 0 .. w - 1 : p \in Range(T) \/ Bit(r, p) = Bit(c, p)
    THEN U[LocalOf(r, T, 0)][LocalOf(c, T, 0)]
    ELSE zero

RECURSIVE KronRow(_, _, _, _, _, _)
KronRow(U, T, w, psi, r, c) ==
    IF c = pow2(w) THEN zero
    ELSE LET e == Kron(U, T, w, r, c)
         IN  IF e = zero THEN KronRow(U, T, w, psi, r, c + 1)
             ELSE CAdd(CMul(e, psi[c]), KronRow(U, T, w, psi, r, c + 1))

KronTimes(U, T, w, psi) == [r \in 0 .. pow2(w) - 1 |-> KronRow(U, T, w, psi, r, 0)]

\* base with bit T[b] added for every set bit b of i
RECURSIVE SetBits(_, _, _, _)
SetBits(base, i, T, b) ==
    IF b \notin DOMAIN T THEN base
    ELSE SetBits(base, i, T, b + 1) + Bit(i, b) * pow2(T[b])

\* sum over i of |v[i]|^2
RECURSIVE NormFrom(_, _)
NormFrom(v, i) == IF i \notin DOMAIN v THEN R(0) ELSE RAdd(normSquared(v[i]), NormFrom(v, i + 1))
Norm(v) == NormFrom(v, 0)

\* U . U^dagger = I, entry by entry and exactly
RECURSIVE RowDot(_, _, _, _)
RowDot(U, i, j, k) ==
    IF k \notin DOMAIN U[i] THEN zero
    ELSE CAdd(CMul(U[i][k], conj(U[j][k])), RowDot(U, i, j, k + 1))
ExactlyUnitary(U) ==
    \A i \in 0 .. Rows(U) - 1 : \A j \in 0 .. Rows(U) - 1 :
        RowDot(U, i, j, 0) = IF i = j THEN fromReal(R(1)) ELSE zero

\* entry (i, j) of U^dagger . U
RECURSIVE ColDot(_, _, _, _)
ColDot(U, i, j, k) ==
    IF k \notin DOMAIN U THEN zero
    ELSE CAdd(CMul(conj(U[k][i]), U[k][j]), ColDot(U, i, j, k + 1))

\* |x - y| <= 1e-9
Near(x, y) == ~RGt(RSub(x, y), Rat(1, 1000000000)) /\ ~RGt(RSub(y, x), Rat(1, 1000000000))

\* every entry of U^dagger . U is within 1e-9 of the identity's, part by part
ProductNearIdentity(U) ==
    \A i \in 0 .. Rows(U) - 1 : \A j \in 0 .. Rows(U) - 1 :
        /\ Near(ColDot(U, i, j, 0).re, IF i = j THEN R(1) ELSE R(0))
        /\ Near(ColDot(U, i, j, 0).im, R(0))

GaussianIntegers(U) ==
    \A i \in DOMAIN U : \A j \in DOMAIN U[i] :
        \A part \in {U[i][j].re, U[i][j].im} : ~IsSurd(part) /\ part[2] = 1

\* the offered matrices that are unitary
UnitaryMatrices == {M \in LibraryGates \cup UserMatrices : Rows(M) = Cols(M) /\ ExactlyUnitary(M)}

Applied == pc = "applied" /\ ValidTargets(op.affectedBits, n)

\* entry (r, c) of the square matrix a tridiagonal_matrix_t stores
TriEntry(M, r, c) ==
    IF c = r THEN M[MainDiagonal][r]
    ELSE IF c = r - 1 THEN M[SubDiagonal][r]
    ELSE IF c = r + 1 THEN M[SuperDiagonal][r]
    ELSE zero

\* row r of that matrix times v
RECURSIVE DenseRow(_, _, _, _)
DenseRow(M, v, r, c) ==
    IF c \notin DOMAIN v THEN zero
    ELSE CAdd(CMul(TriEntry(M, r, c), v[c]), DenseRow(M, v, r, c + 1))

DenseTimes(M, v) == [r \in DOMAIN v |-> DenseRow(M, v, r, 0)]

\* the pivots of the elimination: the main diagonal after the forward sweep
Pivots(Dim, M, d) == ForwardElimination(Dim, 1, [M |-> M, psi |-> d]).M[MainDiagonal]

(***************************************************************************)
(* Properties                                                              *)
(***************************************************************************)
\* C1: for distinct in-range targets, operator() returns the product of the
\* input with the Kronecker-expanded operator (U on the positions T, local
\* bit b at position T[b], identity elsewhere).
TensorProductEquivalence ==
    Applied => result = KronTimes(op.gateMatrix, op.affectedBits, n, input)

\* a 2-qubit gate on descending, non-adjacent positions of a 4-qubit register
TensorProductWitness ==
    /\ Applied
    /\ n = 4
    /\ op.gateMatrix = CX
    /\ op.affectedBits = Arr(<<3, 1>>)
    /\ input = Ramp(4)
    /\ result # input

\* C2: the loop processes exactly the 2^(n-k) bases with no target bit set,
\* the blocks are pairwise disjoint and cover [0, 2^n): every global index is
\* written exactly once.
ExactPartition ==
    Applied =>
        LET T == op.affectedBits
            Written(j) == Range(blocks[j].scatter)
        IN  /\ Len(blocks) = pow2(n - Size(T))
            /\ {blocks[j].base : j \in 1 .. Len(blocks)}
                  = {b \in 0 .. pow2(n) - 1 : \A q \in DOMAIN T : Bit(b, T[q]) = 0}
            /\ \A j \in 1 .. Len(blocks) : \A h \in 1 .. Len(blocks) :
                  j # h => Written(j) \cap Written(h) = {}
            /\ UNION {Written(j) : j \in 1 .. Len(blocks)} = 0 .. pow2(n) - 1
            /\ \A idx \in 0 .. pow2(n) - 1 :
                  Cardinality({<<j, i>> \in (1 .. Len(blocks)) \X (0 .. pow2(Size(T)) - 1) :
                                  blocks[j].scatter[i] = idx}) = 1

\* several blocks of several amplitudes each
ExactPartitionWitness ==
    /\ Applied
    /\ n = 4
    /\ Size(op.affectedBits) = 2
    /\ Len(blocks) = 4

\* C3: gather and scatter address, for local index i of the block at base,
\* the index base + sum of 2^T[b] over the set bits b of i; the map is injective.
IndexMapping ==
    Applied =>
        \A j \in 1 .. Len(blocks) :
            LET blk == blocks[j]
            IN  /\ \A i \in DOMAIN blk.gather :
                      /\ blk.gather[i] = SetBits(blk.base, i, op.affectedBits, 0)
                      /\ blk.scatter[i] = blk.gather[i]
                /\ \A i \in DOMAIN blk.gather : \A h \in DOMAIN blk.gather :
                      i # h => blk.gather[i] # blk.gather[h]

\* a 3-qubit gate whose targets are neither ascending nor adjacent
IndexMappingWitness ==
    /\ Applied
    /\ op.affectedBits = Arr(<<2, 0, 3>>)
    /\ \E j \in 1 .. Len(blocks) : blocks[j].base = 2 /\ blocks[j].gather[5] = 14

\* C4: for a tridiagonal system M x = d whose pivots are nonzero,
\* solveTridiagonal(M, d) returns the x with M x = d.
ThomasSolves ==
    (pc = "solved" /\ \A i \in 0 .. system.Dim - 1 :
                         Pivots(system.Dim, system.M, system.d)[i] # zero)
        => DenseTimes(system.M, solution) = [r \in DOMAIN solution |-> system.d[r]]

\* C5: the vector psi' returned by one Crank-Nicolson step from psi satisfies
\* A psi' = B psi for the matrices A and B built at construction.
StepEquation ==
    (pc = "box" /\ steps > 0) => DenseTimes(m_A, m_psi) = DenseTimes(m_B, previousPsi)

\* C6: after any number of evolve() calls the sum of |psi_i|^2 equals its
\* value before the first call.
NormConserved ==
    pc = "box" => Norm(m_psi) = Norm(initialPsi)

\* C7: a gate accepted by is_unitary on distinct in-range targets keeps the
\* sum of |psi_i|^2, over one application and over a sequence of them.
NormPreserved ==
    Applied => Norm(result) = Norm(input) /\ Norm(result) = Norm(first)

\* a dense rotation applied twice to a state of norm 1
NormPreservedWitness ==
    /\ Applied
    /\ op.gateMatrix = Rot
    /\ applications = 2
    /\ first = TwoTerm(2)
    /\ Norm(result) = R(1)
    /\ result # input

\* C8: a gate whose targets are not pairwise distinct, or not all below the
\* register width, is rejected before any amplitude is read or written.
InvalidTargetsRejected ==
    (op.bound /\ applications > 0 /\ ~ValidTargets(op.affectedBits, n))
        => (pc = "rejected" /\ blocks = <<>> /\ result = NoVector)

\* what the requires-clause, the constructor and the static_assert demand
GateConditions ==
    /\ gate.declared
    /\ Rows(gate.GateMatrix) = Cols(gate.GateMatrix)
    /\ \E e \in 0 .. Rows(gate.GateMatrix) : Rows(gate.GateMatrix) = 2 ^ e
    /\ Rows(gate.GateMatrix) = 2 ^ gate.QBitCount
    /\ Len(qbits) = gate.QBitCount
    /\ gate.GateMatrix \in UnitaryMatrices

\* C9: a gate operator exists only for a square, unitary matrix whose
\* dimension is a power of two equal to 2^QBitCount, bound to exactly
\* QBitCount indices; otherwise construction fails with no operator.
\* Stated where construction has just happened, before any call.
ConstructionValidated ==
    /\ pc \in {"applied", "undefined"} => op.bound
    /\ (op.bound /\ applications = 0) =>
           /\ GateConditions
           /\ op.QBitCount = gate.QBitCount
           /\ op.gateMatrix = gate.GateMatrix
           /\ op.affectedBits = Arr(qbits)
    /\ (pc \notin {"start", "gate"} /\ applications = 0 /\ ~GateConditions)
           => (pc = "rejected" /\ ~op.bound)

\* the 3-qubit library gate bound to three indices
ConstructionWitness ==
    /\ pc = "op"
    /\ applications = 0
    /\ op.bound
    /\ gate.QBitCount = 3
    /\ op.gateMatrix = CCX

RECURSIVE Composed(_, _, _)
Composed(g, w, m) ==
    IF m = 0 THEN [i \in 0 .. pow2(w) - 1 |-> IF i = 0 THEN Gi(1, 0) ELSE zero]
    ELSE Filled(KronTimes(g[m].gateMatrix, g[m].affectedBits, w, Composed(g, w, m - 1)))

\* C11: the executor applies the gates one at a time in argument order, each
\* exactly once and to the state its predecessor produced, starting from
\* |0..0>; it ends holding g_m(..g_2(g_1(e0))..), and e0 for an empty list.
ExecutorOrdering ==
    pc \in {"circuit", "executed"} =>
        /\ log \o rest = circuit.gates
        /\ pc = "executed" => log = circuit.gates
        /\ m_stateVector = Composed(circuit.gates, circuit.QBitCount, Len(log))

\* three gates that do not commute, run to the end
ExecutorOrderingWitness ==
    /\ pc = "executed"
    /\ circuit.QBitCount = 2
    /\ circuit.gates = <<GateOp(2, CX, <<0, 1>>), GateOp(1, H, <<0>>), GateOp(1, X, <<1>>)>>
    /\ m_stateVector # Composed(<<circuit.gates[2], circuit.gates[1], circuit.gates[3]>>, 2, 3)

BellStateCircuit ==
    [QBitCount |-> 2, gates |-> <<GateOp(1, H, <<0>>), GateOp(2, CX, <<0, 1>>)>>]

\* C12: H on qubit 0, then CX bound to (0, 1), from |00>: squared amplitude
\* 1/2 at the indices 0 and 3, amplitude 0 at the indices 1 and 2.
BellState ==
    (pc = "executed" /\ circuit = BellStateCircuit) =>
        /\ normSquared(m_stateVector[0]) = Rat(1, 2)
        /\ normSquared(m_stateVector[3]) = Rat(1, 2)
        /\ m_stateVector[1] = zero
        /\ m_stateVector[2] = zero

BellStateWitness ==
    pc = "executed" /\ circuit = BellStateCircuit /\ m_stateVector[3] # zero

GHZStateCircuitTest ==
    [QBitCount |-> 3,
     gates |-> <<GateOp(1, H, <<0>>), GateOp(2, CX, <<0, 1>>), GateOp(2, CX, <<1, 2>>)>>]

\* C13: H on qubit 0, CX bound to (0, 1), CX bound to (1, 2), from |000>:
\* probability 1/2 at index 0 and at index 7, 0 at the six other indices.
GHZState ==
    (pc = "executed" /\ circuit = GHZStateCircuitTest) =>
        \A i \in 0 .. 7 :
            normSquared(m_stateVector[i]) = IF i \in {0, 7} THEN Rat(1, 2) ELSE R(0)

GHZStateWitness ==
    pc = "executed" /\ circuit = GHZStateCircuitTest /\ m_stateVector[7] # zero

\* C14: a self-inverse library gate with exact entries (X, Y, Z, SWAP, CX,
\* CCX) applied twice on the same distinct in-range targets returns exactly
\* the state it started from.
SelfInverseTwice ==
    (Applied /\ applications = 2 /\ op.gateMatrix \in {X, Y, Z, SWAP, CX, CCX})
        => result = first

\* X twice on the middle qubit of a 3-qubit register
SelfInverseWitness ==
    /\ Applied
    /\ applications = 2
    /\ op.gateMatrix = X
    /\ op.affectedBits = Arr(<<1>>)
    /\ first = Ramp(3)
    /\ input # first
    /\ result = first

\* psi with the amplitudes of the two basis states that differ in bit t
\* exchanged wherever every bit of controls is 1
ControlledFlip(psi, controls, t) ==
    [x \in DOMAIN psi |->
        IF \A c \in controls : Bit(x, c) = 1
        THEN psi[IF Bit(x, t) = 1 THEN x - pow2(t) ELSE x + pow2(t)]
        ELSE psi[x]]

\* C20: CX and CCX bound through toBits take the first-listed qubits as
\* controls and the last-listed qubit as target; every other amplitude is
\* unchanged.
ControlFirst ==
    (Applied /\ applications = 1 /\ op.gateMatrix \in {CX, CCX}) =>
        LET T == op.affectedBits
            k == Size(T)
        IN  result = ControlledFlip(input, {T[q] : q \in 0 .. k - 2}, T[k - 1])

\* the box's dimension D and the value of V at a position
BoxDim == m_config.N - 2
V(position) ==
    IF ~RLt(position, hamiltonianArgs.potential.m_Start)
       /\ ~RGt(position, hamiltonianArgs.potential.m_End)
    THEN hamiltonianArgs.potential.m_V0 ELSE R(0)

\* C15: with alpha = hbar^2 / (2 m dx^2) the Hamiltonian has main[i] =
\* 2 alpha + V(i dx), super[i] = -alpha for i + 1 < D and sub[i] = -alpha for
\* i > 0, all real; m = 1, dx = 1, V = 0, D = 3 gives alpha = 1/2, main = [1, 1, 1]
\* and the couplings -1/2.
HamiltonianDiscretization ==
    pc = "box" =>
        LET alpha == RDiv(R(1), RMul(R(2), RMul(hamiltonianArgs.m,
                                               RMul(hamiltonianArgs.dx, hamiltonianArgs.dx))))
        IN  /\ \A i \in 0 .. BoxDim - 1 :
                  /\ m_hamiltonian[MainDiagonal][i]
                        = Cx(RAdd(RMul(R(2), alpha), V(RMul(R(i), hamiltonianArgs.dx))), R(0))
                  /\ i + 1 < BoxDim => m_hamiltonian[SuperDiagonal][i] = Cx(RNeg(alpha), R(0))
                  /\ i > 0 => m_hamiltonian[SubDiagonal][i] = Cx(RNeg(alpha), R(0))
            /\ (/\ hamiltonianArgs.m = R(1)
                /\ hamiltonianArgs.dx = R(1)
                /\ hamiltonianArgs.potential = ZeroPotential
                /\ BoxDim = 3)
                  => /\ alpha = Rat(1, 2)
                     /\ \A i \in 0 .. 2 : m_hamiltonian[MainDiagonal][i] = Gi(1, 0)
                     /\ \A i \in 0 .. 1 : m_hamiltonian[SuperDiagonal][i] = fromReal(Rat(-1, 2))
                     /\ \A i \in 1 .. 2 : m_hamiltonian[SubDiagonal][i] = fromReal(Rat(-1, 2))

\* a barrier that covers some grid points and not others
HamiltonianWitness ==
    /\ pc = "box"
    /\ BoxDim = 3
    /\ hamiltonianArgs.dx = R(1)
    /\ hamiltonianArgs.potential = PotentialBarrier(R(1), R(2), R(3))
    /\ m_hamiltonian[MainDiagonal][0] # m_hamiltonian[MainDiagonal][1]

\* C16: with F = i dt / (2 hbar), A.main[i] = 1 + F H.main[i] and B.main[i] =
\* 1 - F H.main[i]; A.sub[i] = F H.sub[i], B.sub[i] = -F H.sub[i] for i > 0;
\* A.super[i] = F H.super[i], B.super[i] = -F H.super[i] for i + 1 < D; so
\* A + B = 2 I on every stored entry.
CrankNicolsonMatrices ==
    pc = "box" =>
        LET F == Cx(R(0), RDiv(m_config.dt, R(2)))
            S(diagonal, i) == CAdd(m_A[diagonal][i], m_B[diagonal][i])
        IN  \A i \in 0 .. BoxDim - 1 :
              /\ m_A[MainDiagonal][i] = CAdd(Gi(1, 0), CMul(F, m_hamiltonian[MainDiagonal][i]))
              /\ m_B[MainDiagonal][i] = CSub(Gi(1, 0), CMul(F, m_hamiltonian[MainDiagonal][i]))
              /\ S(MainDiagonal, i) = Gi(2, 0)
              /\ i > 0 =>
                   /\ m_A[SubDiagonal][i] = CMul(F, m_hamiltonian[SubDiagonal][i])
                   /\ m_B[SubDiagonal][i] = CNeg(CMul(F, m_hamiltonian[SubDiagonal][i]))
                   /\ S(SubDiagonal, i) = zero
              /\ i + 1 < BoxDim =>
                   /\ m_A[SuperDiagonal][i] = CMul(F, m_hamiltonian[SuperDiagonal][i])
                   /\ m_B[SuperDiagonal][i] = CNeg(CMul(F, m_hamiltonian[SuperDiagonal][i]))
                   /\ S(SuperDiagonal, i) = zero

\* matrices with off-diagonal entries, from a Hamiltonian with a potential
CrankNicolsonWitness ==
    /\ pc = "box"
    /\ BoxDim = 3
    /\ hamiltonianArgs.potential # ZeroPotential
    /\ m_A[SubDiagonal][2] # zero
    /\ m_B[SuperDiagonal][0] # zero

SolverImmutable ==
    pc = "box" =>
        LET built == Hamiltonian(BoxDim, hamiltonianArgs.m, hamiltonianArgs.dx,
                                 hamiltonianArgs.potential)
            A == CrankNicolsonA(BoxDim, built, m_config.dt)
            B == CrankNicolsonB(BoxDim, built, m_config.dt)
        IN  /\ m_hamiltonian = built
            /\ m_A = A
            /\ m_B = B
            /\ steps > 0 => m_psi = CrankNicolsonStep(BoxDim, A, B, previousPsi)

\* a second step on a matrix the elimination would have changed
SolverImmutableWitness ==
    /\ pc = "box"
    /\ steps = 2
    /\ BoxDim = 3
    /\ CallerMatrixByReference(BoxDim, m_A, previousPsi) # m_A

\* C19: index 0 of the subdiagonal and index D-1 of the superdiagonal are
\* read neither by the matrix-vector product nor by solveTridiagonal, for
\* every D >= 1.
DocumentedPlaceholdersNeverRead ==
    pc = "box" =>
        \A r \in reads :
            r[1] \in {"multiplyTrigiagonal", "solveTridiagonal"}
                => /\ ~(r[2] = SubDiagonal /\ r[3] = 0)
                   /\ ~(r[2] = SuperDiagonal /\ r[3] = BoxDim - 1)

\* C21: multiplyTrigiagonal returns result[i] = main[i] x[i] + sub[i] x[i-1]
\* (i > 0) + super[i] x[i+1] (i + 1 < D), the product of x with the D x D
\* matrix that has main[i] at (i, i), sub[i] at (i, i-1), super[i] at (i, i+1).
TridiagonalProduct ==
    pc = "multiplied" =>
        LET M == system.M
            x == system.d
            D == system.Dim
        IN  /\ solution = DenseTimes(M, x)
            /\ \A i \in 0 .. D - 1 :
                  solution[i] =
                      CAdd(CAdd(CMul(M[MainDiagonal][i], x[i]),
                                IF i > 0 THEN CMul(M[SubDiagonal][i], x[i - 1]) ELSE zero),
                           IF i + 1 < D THEN CMul(M[SuperDiagonal][i], x[i + 1]) ELSE zero)

\* a matrix whose two off-diagonals differ and whose placeholders are not zero
TridiagonalProductWitness ==
    /\ pc = "multiplied"
    /\ system.Dim = 3
    /\ system.M[SubDiagonal][1] # system.M[SuperDiagonal][1]
    /\ system.M[SubDiagonal][0] # zero
    /\ system.d = Wave(3)

\* the solver applied k times to psi
RECURSIVE Stepped(_, _)
Stepped(k, psi) ==
    IF k = 0 THEN psi
    ELSE LET before == Stepped(k - 1, psi)
         IN  IF DOMAIN before = DOMAIN psi
             THEN CrankNicolsonStep(BoxDim, m_A, m_B, before)
             ELSE NoVector

\* C22: every evolve() call leaves the box ready for a further call, replaces
\* the stored state by one solver step of the previously stored state and
\* returns that vector, and leaves configuration, Hamiltonian and solver
\* unchanged; the n-th call returns the n-fold step of the initial state.
SteppingProtocol ==
    /\ [][pc = "box" =>
            /\ pc' = "box"
            /\ steps' = steps + 1
            /\ m_psi' = CrankNicolsonStep(BoxDim, m_A, m_B, m_psi)
            /\ returned' = m_psi'
            /\ UNCHANGED <<m_config, m_hamiltonian, m_A, m_B>>]_vars
    /\ [](pc = "box" /\ steps > 0 => returned = Stepped(steps, initialPsi))

\* a second call whose result differs from the first call's
SteppingWitness ==
    /\ pc = "box"
    /\ steps = 2
    /\ BoxDim = 3
    /\ returned = m_psi
    /\ returned # previousPsi
    /\ previousPsi # initialPsi

\* C23: when the sum of |psi_i|^2 times dx is <= 0, normalize_with_dx leaves
\* every amplitude unchanged; otherwise every amplitude is multiplied by the
\* same positive real factor f with f^2 = 1 / (sum |psi_i|^2 dx), so the
\* ratios between the amplitudes are unchanged.
GuardedNormalization ==
    (pc = "called" /\ call.fn = "normalize_with_dx") =>
        LET psi   == call.psi
            total == RMul(Norm(psi), call.dx)
        IN  IF ~RGt(total, R(0)) THEN value = psi
            ELSE LET k == CHOOSE i \in DOMAIN psi : psi[i] # zero
                     f == CDiv(value[k], psi[k])
                 IN  /\ f.im = R(0)
                     /\ RGt(f.re, R(0))
                     /\ RMul(RMul(f.re, f.re), total) = R(1)
                     /\ \A i \in DOMAIN psi : value[i] = CMul(psi[i], f)
                     /\ \A i \in DOMAIN psi : \A j \in DOMAIN psi :
                            CMul(value[i], psi[j]) = CMul(value[j], psi[i])

\* a vector rescaled by 1/4, and the guard taken for a negative spacing
GuardedNormalizationWitness ==
    /\ pc = "called"
    /\ call.fn = "normalize_with_dx"
    /\ call.psi = Arr(<<Gi(1, 1), Gi(-2, 0), Gi(1, 1)>>)
    /\ call.dx = R(2)
    /\ value[1] = fromReal(Rat(-1, 2))

\* sin(k Pi/2) and cos(k Pi/2) for an integer k, by quarter turns from k = 0
RECURSIVE SinQuarterTurns(_), CosQuarterTurns(_)
SinQuarterTurns(k) ==
    IF k = 0 THEN 0
    ELSE IF k > 0 THEN CosQuarterTurns(k - 1) ELSE -CosQuarterTurns(k + 1)
CosQuarterTurns(k) ==
    IF k = 0 THEN 1
    ELSE IF k > 0 THEN -SinQuarterTurns(k - 1) ELSE SinQuarterTurns(k + 1)

\* C24: for x = k (Pi/2) + r with k = floor((x + Pi/4) / (Pi/2)), sin returns
\* [sin_poly(r), cos_poly(r), -sin_poly(r), -cos_poly(r)] and cos returns
\* [cos_poly(r), -sin_poly(r), -cos_poly(r), sin_poly(r)] at k mod 4; the
\* selector int(k) & 3 is the residue of k in 0 .. 3 also for negative k, and
\* the table agrees with the angle-addition identities for sin(k Pi/2 + r) and
\* cos(k Pi/2 + r).
QuadrantTable ==
    (pc = "called" /\ call.fn \in {"sin_constexpr", "cos_constexpr"}) =>
        LET x == call.x
            y == RAdd(RMul(R(2), x), Rat(1, 2))
            k == y[1] \div y[2]
            r == RSub(x, Rat(k, 2))
            sinTable == <<sin_poly(r), cos_poly(r), Minus(sin_poly(r)), Minus(cos_poly(r))>>
            cosTable == <<cos_poly(r), Minus(sin_poly(r)), Minus(cos_poly(r)), sin_poly(r)>>
        IN  /\ reduce_quadrant(x) = [xr |-> r, kmod4 |-> k % 4]
            /\ ~RLt(r, Rat(-1, 4)) /\ RLt(r, Rat(1, 4))
            /\ call.fn = "sin_constexpr" =>
                   /\ value = sinTable[(k % 4) + 1]
                   /\ value = Term(CosQuarterTurns(k), SinQuarterTurns(k), r)
            /\ call.fn = "cos_constexpr" =>
                   /\ value = cosTable[(k % 4) + 1]
                   /\ value = Term(-SinQuarterTurns(k), CosQuarterTurns(k), r)

\* sin(-5 Pi/8): k = -1, the residue is 3 and the value -cos_poly(-Pi/8)
QuadrantTableWitness ==
    /\ pc = "called"
    /\ call = [fn |-> "sin_constexpr", x |-> Rat(-5, 8)]
    /\ reduce_quadrant(call.x) = [xr |-> Rat(-1, 8), kmod4 |-> 3]
    /\ value = Minus(cos_poly(Rat(-1, 8)))

\* C25: for exact a, b, c, d with c^2 + d^2 # 0, (a + bi) / (c + di) is
\* ((ac + bd) / (c^2 + d^2), (bc - ad) / (c^2 + d^2)); hence (z / w) * w = z
\* for every z and every nonzero w, z * conj(z) = (normSquared(z), 0), and
\* conj(conj(z)) = z.
DivisionAndConjugation ==
    /\ (pc = "called" /\ call.fn = "operator/") =>
           LET a == call.z.re
               b == call.z.im
               c == call.w.re
               d == call.w.im
               cc == RAdd(RMul(c, c), RMul(d, d))
           IN  cc # R(0) =>
                   /\ value = Cx(RDiv(RAdd(RMul(a, c), RMul(b, d)), cc),
                                 RDiv(RSub(RMul(b, c), RMul(a, d)), cc))
                   /\ CMul(value, call.w) = call.z
    /\ (pc = "called" /\ call.fn = "conj") =>
           /\ CMul(call.z, value) = Cx(normSquared(call.z), R(0))
           /\ conj(value) = call.z

\* (1 + 2i) / (1/2 - i) = -6/5 + (8/5) i
DivisionAndConjugationWitness ==
    /\ pc = "called"
    /\ call = [fn |-> "operator/", z |-> Gi(1, 2), w |-> Cx(Rat(1, 2), R(-1))]
    /\ value = Cx(Rat(-6, 5), Rat(8, 5))

\* the qubits a gate operator is bound to
Targets(g) == Range(g.affectedBits)

\* C26: two gate operators G1 on T1 and G2 on T2 of the same register, T1 and
\* T2 disjoint (each list distinct and in range), commute: G2(G1(psi)) =
\* G1(G2(psi)) for every state psi.
DisjointGatesCommute ==
    (pc = "called" /\ call.fn = "G2(G1(psi))" /\ Targets(call.G1) \cap Targets(call.G2) = {}) =>
        value = Invoke(call.G1, Invoke(call.G2, call.psi))

\* H on qubit 2 and CX on qubits 1, 0 of three, neither leaving the state alone
DisjointGatesCommuteWitness ==
    /\ pc = "called"
    /\ call.fn = "G2(G1(psi))"
    /\ call.w = 3
    /\ call.G1 = GateOp(1, H, <<2>>)
    /\ call.G2 = GateOp(2, CX, <<1, 0>>)
    /\ call.psi = Ramp(3)
    /\ value # Invoke(call.G1, call.psi)
    /\ value # Invoke(call.G2, call.psi)

\* the global indices the scatters of the blocks before block j have written
WrittenBefore(j) == UNION {Range(blocks[i].scatter) : i \in 1 .. j - 1}

\* every block computed from the input of the call and written to a copy of it
FromUntouchedCopy ==
    [x \in DOMAIN input |->
        IF \E b \in DOMAIN blocks : x \in Range(blocks[b].scatter)
        THEN LET j == CHOOSE b \in DOMAIN blocks : x \in Range(blocks[b].scatter)
                 l == CHOOSE localIdx \in DOMAIN blocks[j].scatter :
                          blocks[j].scatter[localIdx] = x
             IN  applyUnitary(op.gateMatrix,
                              Gather(input, pow2(n), blocks[j].gather, pow2(op.QBitCount), zero),
                              pow2(op.QBitCount))[l]
        ELSE input[x]]

\* C27: during one gate application with distinct targets no block gathers
\* from a global index that the scatter of an earlier block has written, so
\* every gathered amplitude is the input's, and the result equals the one
\* obtained by computing all blocks from an untouched copy of the input.
InPlaceReadsInput ==
    Applied =>
        /\ \A j \in DOMAIN blocks : Range(blocks[j].gather) \cap WrittenBefore(j) = {}
        /\ result = FromUntouchedCopy

\* H on qubit 1 of three: four blocks, each changing the state
InPlaceReadsInputWitness ==
    /\ Applied
    /\ op.gateMatrix = H
    /\ qbits = <<1>>
    /\ n = 3
    /\ input = Ramp(3)
    /\ Len(blocks) = 4
    /\ WrittenBefore(4) = {0, 2, 1, 3, 4, 6}
    /\ result # input

\* the divisors solveTridiagonal uses in evolve(): main[i - 1] as the elimination
\* left it, for i = 1 .. D - 1, and main[i] in the back substitution
Divisors == Pivots(BoxDim, m_A, multiplyTrigiagonal(BoxDim, m_B, previousPsi))

\* C28: for a real-valued potential, m > 0, dx > 0, dt > 0 and D >= 1, every
\* divisor solveTridiagonal uses on A = I + i dt/(2 hbar) H, the eliminated
\* main[i-1] for i = 1 .. D-1 and main[i] in the back substitution, is nonzero,
\* so evolve never divides by zero.
NoZeroPivot ==
    (pc = "box" /\ steps > 0) =>
        /\ \A i \in 0 .. BoxDim - 1 : Divisors[i] # zero
        /\ \A i \in 0 .. BoxDim - 1 : CFinite(Divisors[i])
        /\ \A i \in 0 .. BoxDim - 1 : CFinite(returned[i])

\* a box of three points behind a barrier after a step: the elimination has
\* changed the last two divisors
NoZeroPivotWitness ==
    /\ pc = "box"
    /\ steps > 0
    /\ BoxDim = 3
    /\ hamiltonianArgs.potential # ZeroPotential
    /\ Divisors[0] = m_A[MainDiagonal][0]
    /\ Divisors[1] # m_A[MainDiagonal][1]
    /\ Divisors[2] # m_A[MainDiagonal][2]

\* C29: for a real-valued potential, m > 0 and dx > 0 the matrix the
\* Hamiltonian constructor builds is real and symmetric: every stored entry
\* has imaginary part 0 and super[i] = sub[i+1] for 0 <= i < D-1; consequently
\* B = conj(A) entry by entry on the stored entries.
HermitianHamiltonian ==
    pc = "box" =>
        /\ \A diagonal \in 0 .. 2 : \A i \in 0 .. BoxDim - 1 :
               m_hamiltonian[diagonal][i].im = R(0)
        /\ \A i \in 0 .. BoxDim - 2 :
               m_hamiltonian[SuperDiagonal][i] = m_hamiltonian[SubDiagonal][i + 1]
        /\ \A diagonal \in 0 .. 2 : \A i \in 0 .. BoxDim - 1 :
               m_B[diagonal][i] = conj(m_A[diagonal][i])

\* three grid points, the barrier on the second and third: the couplings are
\* not zero and A is not real
HermitianHamiltonianWitness ==
    /\ pc = "box"
    /\ BoxDim = 3
    /\ m_hamiltonian[MainDiagonal][1] # m_hamiltonian[MainDiagonal][0]
    /\ m_hamiltonian[SuperDiagonal][1] # zero
    /\ m_hamiltonian[SubDiagonal][2] # zero
    /\ m_A[SubDiagonal][1] # m_B[SubDiagonal][1]
    /\ m_A[MainDiagonal][2] # m_B[MainDiagonal][2]

\* C30: built from the same OneDimensionalParticleBoxConfig (same dx, same
\* M = N - 2), grid index i denotes the same physical position in the
\* Hamiltonian builder, which evaluates the potential for index i, as in the
\* seed generators GaussianWavePacket and EigenState, for every i in [0, M).
ConsistentGridPositions ==
    (pc = "called" /\ call.fn = "grid") =>
        \A i \in 0 .. call.cfg.M - 1 :
            /\ value.hamiltonian[i] = value.gaussianPacket[i]
            /\ value.hamiltonian[i] = value.eigenState[i]

=============================================================================
